---- MODULE Spec2Model ----
(***************************************************************************)
(* Model of selfdrive/ui/qt/onroad.cc: the on-road window (click routing,  *)
(* click timer, map panel life cycle) and the annotated camera widget      *)
(* (updateState caches, paintGL frame skipping, HUD sign selection, path   *)
(* colour selection).                                                      *)
(***************************************************************************)
EXTENDS Integers, Sequences, FiniteSets, TLC

VARIABLES
  params,          \* persisted store Params(), the keys the file reads back
  pending,         \* non-blocking writes to params not yet in the store, <<key, value>>
  reverseCruiseIncrease, speedHidden, displaySLCOffset,  \* cached toggles
  clickTimerActive,  \* clickTimer.isActive()
  posted,          \* synthetic mouse events posted and not yet delivered
  map,             \* OnroadWindow::map : "null" or "panel"
  mapVisible,      \* map->isVisible()
  split,           \* widgets of the split layout, position 0 first
  doomed,          \* panels handed to deleteLater() and not yet destroyed
  btnEnabled,      \* nvg->map_settings_btn->isEnabled()
  btnVisible,      \* nvg->map_settings_btn->isVisible()
  hasPrime,        \* uiState()->hasPrime()
  mapboxToken,     \* MAPBOX_TOKEN is non-empty
  offroad,         \* last offroadTransition argument
  alert,           \* OnroadAlerts::alert
  ev,              \* what the handler that ran last did: its writes, its propagation
  pre,             \* the input and the state a single handler run started from
  nvg,             \* AnnotatedCameraWidget's cached values
  personalityVisible,  \* personality_btn->isVisible()
  skip_frame_count,    \* AnnotatedCameraWidget::skip_frame_count
  frames,          \* CameraWidget::frames, the number of buffered camera frames
  wide_cam_requested,  \* AnnotatedCameraWidget::wide_cam_requested
  streamType,      \* CameraWidget::requested_stream_type
  activeStreamType,    \* CameraWidget::active_stream_type
  sceneWideCam,    \* uiState()->scene.wide_cam
  sceneModelFrame, \* the modelV2 frame the scene's polygons were computed from
  skippedInRow,    \* history: paintGL calls skipped since the last one that drew
  animationFrameIndex, \* AnnotatedCameraWidget::animationFrameIndex
  signalImgVector, \* AnnotatedCameraWidget::signalImgVector, the images loaded
  statusBar,       \* the statics of drawStatusBar: timer, lastShownStatus, displayStatusText
  pbtn,            \* PersonalityButton: personalityProfile, the stored parameters
  frame_lock,      \* CameraWidget::frame_lock: "free" or the thread that holds it
  paintPc,         \* where the UI thread is inside paintGL
  car,             \* hasLongitudinalControl(carParams), ExperimentalModeConfirmed
  fpsStats,        \* OnroadWindow's FPS accumulators and the time since their reset
  bg,              \* OnroadWindow::bg, the border colour
  direction        \* split->direction()

wvars == <<params, pending,
           reverseCruiseIncrease, speedHidden, displaySLCOffset,
           clickTimerActive, posted, map, mapVisible, split, doomed,
           btnEnabled, btnVisible, hasPrime, mapboxToken, offroad, alert>>

avars == <<animationFrameIndex, signalImgVector>>

uvars == <<statusBar, pbtn, frame_lock, paintPc>>

ovars == <<car, fpsStats, bg, direction>>

cvars == <<nvg, personalityVisible, skip_frame_count, frames, wide_cam_requested,
           streamType, activeStreamType, sceneWideCam, sceneModelFrame, skippedInRow,
           avars, uvars, ovars>>

vars == <<wvars, cvars, ev, pre>>

(***************************************************************************)
(* Bounds                                                                  *)
(***************************************************************************)
MaxPending == 2   \* queued non-blocking writes
MaxPosted == 1    \* posted synthetic clicks waiting for delivery
MaxDoomed == 1    \* panels waiting for their deferred delete

(***************************************************************************)
(* Geometry                                                                *)
(***************************************************************************)
\* QRect(x, y, w, h)
QRect(x, y, w, h) == [x1 |-> x, y1 |-> y, x2 |-> x + w - 1, y2 |-> y + h - 1]

\* QRect::contains(QPoint): the edges belong to the rectangle
Contains(r, p) == /\ r.x1 <= p[1] /\ p[1] <= r.x2
                  /\ r.y1 <= p[2] /\ p[2] <= r.y2

\* rect().center().x() of a widget of width w
CenterX(w) == (0 + (w - 1)) \div 2

maxSpeedRect == QRect(7, 25, 225, 225)
speedRect(w) == QRect(CenterX(w) - 175, 50, 350, 350)
speedLimitRect == QRect(7, 250, 225, 225)

\* the position the click timer's synthetic click is posted at
timeoutPoint == <<420, 69>>

\* window geometries: full screen, beside the sidebar, and a narrow window
\* in which the speed rectangle overlaps the two left-hand rectangles
Geometries == { [x |-> 0, w |-> 2160], [x |-> 300, w |-> 1860], [x |-> 0, w |-> 400] }

\* click positions: corners, just-outside neighbours and interior points
Positions == { <<7, 25>>, <<231, 249>>, <<6, 25>>, <<232, 249>>,
               <<7, 250>>, <<231, 474>>, <<100, 475>>,
               <<904, 50>>, <<1253, 399>>, <<903, 50>>, <<1254, 399>>,
               <<100, 100>>, <<100, 300>>, <<1500, 700>>, timeoutPoint }


(***************************************************************************)
(* Inputs read from uiState()->scene by the window's handlers              *)
(***************************************************************************)
ConditionalStatuses == {0, 1, 5}

Scenes == [ experimental_mode_via_wheel : BOOLEAN,
            conditional_experimental : BOOLEAN,
            conditional_status : ConditionalStatuses,
            navigate_on_openpilot : BOOLEAN ]

\* keys of Params() this file reads back; the keys it only writes (Sidebar,
\* ConditionalStatus, FrogPilotTogglesUpdated) appear in ev.writes alone
ParamKeys == {"ReverseCruiseIncrease", "HideSpeed", "DisplaySLCOffset", "ExperimentalMode"}

(***************************************************************************)
(* OnroadWindow::mousePressEvent                                           *)
(***************************************************************************)
isMaxSpeedClicked(p) == Contains(maxSpeedRect, p)
isSpeedClicked(p, g) == Contains(speedRect(g.w), p)
isSpeedLimitClicked(p) == Contains(speedLimitRect, p)

\* ClickBranch with the speed rectangle tested before the max-speed one
ClickBranchSpeedFirst(p, g, sc) ==
  IF isMaxSpeedClicked(p) \/ isSpeedClicked(p, g) \/ isSpeedLimitClicked(p)
  THEN IF isSpeedClicked(p, g) THEN "speed"
       ELSE IF isMaxSpeedClicked(p) THEN "maxSpeed"
       ELSE "speedLimit"
  ELSE IF sc.experimental_mode_via_wheel /\ p # timeoutPoint
  THEN "wheel"
  ELSE "other"

\* the branch of the handler a click takes
ClickBranch(p, g, sc) ==
  IF isMaxSpeedClicked(p) \/ isSpeedClicked(p, g) \/ isSpeedLimitClicked(p)
  THEN IF isMaxSpeedClicked(p) THEN "maxSpeed"
       ELSE IF isSpeedClicked(p, g) THEN "speed"
       ELSE "speedLimit"
  ELSE IF sc.experimental_mode_via_wheel /\ p # timeoutPoint
  THEN "wheel"
  ELSE "other"

\* the ConditionalStatus override value of the double click
OverrideValue(cs) ==
  IF cs = 1 \/ cs = 2 \/ cs = 3 \/ cs = 4 THEN 0 ELSE IF cs >= 5 THEN 3 ELSE 4

\* geometry().x() > 0
SidebarVisible(g) == g.x > 0

\* MapShown without the test of the map's own visibility
MapShownWhateverItWas(g, sc) ==
  IF sc.navigate_on_openpilot THEN SidebarVisible(g) ELSE ~SidebarVisible(g)

\* the value the map's setVisible is called with, when it is called
MapShown(g, sc) ==
  LET show_map == IF sc.navigate_on_openpilot THEN SidebarVisible(g) ELSE ~SidebarVisible(g)
  IN  show_map /\ ~mapVisible

\* the key a widget branch toggles
WidgetKey(b) == IF b = "maxSpeed" THEN "ReverseCruiseIncrease"
                ELSE IF b = "speed" THEN "HideSpeed" ELSE "DisplaySLCOffset"

\* the writes a click issues, in program order, as <<store, key, value>>
ClickWrites(b, g, sc) ==
  IF b \in {"maxSpeed", "speed", "speedLimit"}
  THEN <<  <<"params", WidgetKey(b), ~params[WidgetKey(b)]>> >>
       \o (IF b = "maxSpeed" THEN << <<"memory", "FrogPilotTogglesUpdated", TRUE>> >> ELSE << >>)
  ELSE IF b = "wheel"
  THEN IF clickTimerActive
       THEN IF sc.conditional_experimental
            THEN << <<"memory", "ConditionalStatus", OverrideValue(sc.conditional_status)>> >>
            ELSE << <<"params", "ExperimentalMode", ~params["ExperimentalMode"]>> >>
       ELSE << >>
  ELSE << <<"params", "Sidebar", ~SidebarVisible(g)>> >>

\* the writes among ws that go to a key of Params() the file reads back
RECURSIVE Queued(_)
Queued(ws) ==
  IF ws = << >> THEN << >>
  ELSE IF Head(ws)[1] = "params" /\ Head(ws)[2] \in ParamKeys
       THEN << <<Head(ws)[2], Head(ws)[3]>> >> \o Queued(Tail(ws))
       ELSE Queued(Tail(ws))

mousePressEvent(p, g, sc, synthetic) ==
  LET b == ClickBranch(p, g, sc)
      widgetClicked == b # "other"
      ws == ClickWrites(b, g, sc)
  IN
  /\ Len(pending) + Len(Queued(ws)) <= MaxPending
  /\ reverseCruiseIncrease' = IF b = "maxSpeed" THEN ~params["ReverseCruiseIncrease"] ELSE reverseCruiseIncrease
  /\ speedHidden' = IF b = "speed" THEN ~params["HideSpeed"] ELSE speedHidden
  /\ displaySLCOffset' = IF b = "speedLimit" THEN ~params["DisplaySLCOffset"] ELSE displaySLCOffset
  /\ clickTimerActive' = IF b = "wheel" THEN ~clickTimerActive ELSE clickTimerActive
  /\ pending' = pending \o Queued(ws)
  /\ mapVisible' = IF map # "null" /\ ~widgetClicked
                       /\ (~sc.experimental_mode_via_wheel \/ mapVisible)
                    THEN MapShown(g, sc)
                    ELSE mapVisible
  /\ posted' = IF synthetic THEN posted - 1 ELSE posted
  /\ ev' = [op |-> "mousePressEvent", pos |-> p, synthetic |-> synthetic,
            writes |-> ws, propagated |-> ~widgetClicked]
  /\ UNCHANGED <<cvars, params, map, split, doomed, btnEnabled, btnVisible,
                 hasPrime, mapboxToken, offroad, alert>>

\* a press of the touch screen
Click(p, g, sc) == mousePressEvent(p, g, sc, FALSE) /\ UNCHANGED pre

\* the event loop delivers the synthetic click posted by the click timer
DeliverPosted(g, sc) ==
  /\ posted > 0
  /\ mousePressEvent(timeoutPoint, g, sc, TRUE)
  /\ UNCHANGED pre

\* clickTimer's timeout lambda
clickTimerTimeout ==
  /\ clickTimerActive
  /\ posted < MaxPosted
  /\ clickTimerActive' = FALSE
  /\ posted' = posted + 1
  /\ ev' = [op |-> "timeout"]
  /\ UNCHANGED <<cvars, pre, params, pending, reverseCruiseIncrease, speedHidden, displaySLCOffset,
                 map, mapVisible, split, doomed, btnEnabled, btnVisible,
                 hasPrime, mapboxToken, offroad, alert>>

\* a queued non-blocking write reaches the store
ParamsFlush ==
  /\ pending # << >>
  /\ params' = [params EXCEPT ![Head(pending)[1]] = Head(pending)[2]]
  /\ pending' = Tail(pending)
  /\ ev' = [op |-> "flush"]
  /\ UNCHANGED <<cvars, pre, reverseCruiseIncrease, speedHidden, displaySLCOffset,
                 clickTimerActive, posted, map, mapVisible, split, doomed,
                 btnEnabled, btnVisible, hasPrime, mapboxToken, offroad, alert>>


(***************************************************************************)
(* The map panel: OnroadWindow::offroadTransition, primeChanged            *)
(***************************************************************************)
\* split->insertWidget(0, m)
InsertFirst(layout, w) == <<w>> \o layout

\* the panel of the layout handed to deleteLater()
RECURSIVE MarkDoomed(_)
MarkDoomed(layout) ==
  IF layout = << >> THEN << >>
  ELSE <<IF Head(layout) = "map" THEN "doomed" ELSE Head(layout)>> \o MarkDoomed(Tail(layout))

\* the layout without its first doomed panel
RECURSIVE DropDoomed(_)
DropDoomed(layout) ==
  IF layout = << >> THEN << >>
  ELSE IF Head(layout) = "doomed" THEN Tail(layout)
  ELSE <<Head(layout)>> \o DropDoomed(Tail(layout))

\* the panel and its button as a handler finds them
PanelState == [map |-> map, btnEnabled |-> btnEnabled, btnVisible |-> btnVisible,
               doomed |-> doomed, split |-> split]

\* the guard under which offroadTransition builds the panel
MapWantedAnyPanel(off) == ~off /\ (hasPrime \/ mapboxToken)

MapWantedPrimeOnly(off) == ~off /\ map = "null" /\ hasPrime

MapWanted(off) == ~off /\ map = "null" /\ (hasPrime \/ mapboxToken)

offroadTransition(off) ==
  /\ IF MapWanted(off)
     THEN /\ map' = "panel"
          /\ btnEnabled' = TRUE
          /\ split' = InsertFirst(split, "map")
          /\ mapVisible' = FALSE
     ELSE UNCHANGED <<map, btnEnabled, split, mapVisible>>
  /\ alert' = "none"
  /\ offroad' = off
  /\ ev' = [op |-> "offroadTransition", off |-> off, before |-> PanelState]
  /\ UNCHANGED <<cvars, pre, params, pending, reverseCruiseIncrease, speedHidden, displaySLCOffset,
                 clickTimerActive, posted, doomed, btnVisible, hasPrime, mapboxToken>>

\* the guard under which primeChanged tears the panel down
MapLostAnyToken(prime) == map # "null" /\ ~prime

MapLost(prime) == map # "null" /\ (~prime /\ ~mapboxToken)

\* UIState changes its prime type and emits primeChanged(prime)
primeChanged(prime) ==
  /\ hasPrime' = prime
  /\ IF MapLost(prime)
     THEN /\ doomed < MaxDoomed
          /\ btnEnabled' = FALSE
          /\ btnVisible' = FALSE
          /\ doomed' = doomed + 1
          /\ split' = MarkDoomed(split)
          /\ map' = "null"
          /\ mapVisible' = FALSE
     ELSE UNCHANGED <<btnEnabled, btnVisible, doomed, split, map, mapVisible>>
  /\ ev' = [op |-> "primeChanged", prime |-> prime, before |-> PanelState]
  /\ UNCHANGED <<cvars, pre, params, pending, reverseCruiseIncrease, speedHidden, displaySLCOffset,
                 clickTimerActive, posted, mapboxToken, offroad, alert>>

\* the event loop destroys a panel handed to deleteLater()
DeferredDelete ==
  /\ doomed > 0
  /\ doomed' = doomed - 1
  /\ split' = DropDoomed(split)
  /\ ev' = [op |-> "deferredDelete"]
  /\ UNCHANGED <<cvars, pre, params, pending, reverseCruiseIncrease, speedHidden, displaySLCOffset,
                 clickTimerActive, posted, map, mapVisible, btnEnabled, btnVisible,
                 hasPrime, mapboxToken, offroad, alert>>

(***************************************************************************)
(* AnnotatedCameraWidget::updateState                                      *)
(***************************************************************************)
\* speeds are fixed-point numbers, in thousandths of a unit
Milli == 1000
MS_TO_KPH == 3600
MS_TO_MPH == 2237

\* std::round of a fixed-point number: to the nearest whole unit, halves away
\* from zero
Round(m) ==
  IF m >= 0 THEN ((m + (Milli \div 2)) \div Milli) * Milli
  ELSE 0 - (((0 - m) + (Milli \div 2)) \div Milli) * Milli

SpeedFactor(metric) == IF metric THEN MS_TO_KPH ELSE MS_TO_MPH

\* the snapshot fields updateState reads: the navInstruction and
\* controlsState messages of the SubMaster and the scene
\* cruise speeds are in km/h, ego speeds in m/s
SnapshotsOf(alive, cruise, cruiseCluster, ego, egoCluster) ==
  [ nav_alive : BOOLEAN, sign : {"MUTCD", "VIENNA"}, nav_speed_limit : {25},
    alert_size : {"NONE", "MID"}, show_driver_camera : BOOLEAN,
    is_metric : BOOLEAN, speed_limit : {0, 20}, speed_limit_offset : {0, 2},
    turn_signal_left : BOOLEAN, turn_signal_right : BOOLEAN,
    blind_spot_left : BOOLEAN, blind_spot_right : BOOLEAN,
    custom_signals : {0, 1, 2}, personalities_via_screen : BOOLEAN,
    cs_alive : alive, v_cruise : cruise, v_cruise_cluster : cruiseCluster,
    v_ego : ego, v_ego_cluster : egoCluster, vtsc_offset : {0} ]

Snapshots == SnapshotsOf(BOOLEAN, {0, 40, 255}, {0, 50}, {-1, 0, 10}, {-2, 0, 12})

\* the snapshots of a car at rest with controlsState alive and no cruise speed
StillSnapshots == SnapshotsOf({TRUE}, {0}, {0}, {0}, {0})

\* the snapshot without navigation, alert, signal or SLC limit
QuietSnapshot ==
  [ nav_alive |-> FALSE, sign |-> "MUTCD", nav_speed_limit |-> 25,
    alert_size |-> "NONE", show_driver_camera |-> FALSE, is_metric |-> FALSE,
    speed_limit |-> 0, speed_limit_offset |-> 0,
    turn_signal_left |-> FALSE, turn_signal_right |-> FALSE,
    blind_spot_left |-> FALSE, blind_spot_right |-> FALSE,
    custom_signals |-> 0, personalities_via_screen |-> FALSE,
    cs_alive |-> TRUE, v_cruise |-> 0, v_cruise_cluster |-> 0,
    v_ego |-> 0, v_ego_cluster |-> 0, vtsc_offset |-> 0 ]

\* the caches after the constructor
NvgConstructed ==
  [ speedLimit |-> 0, has_us_speed_limit |-> FALSE, has_eu_speed_limit |-> FALSE,
    is_metric |-> FALSE, hideBottomIcons |-> FALSE,
    slcSpeedLimit |-> 0, slcSpeedLimitOffset |-> 0,
    turnSignalLeft |-> FALSE, turnSignalRight |-> FALSE,
    blindSpotLeft |-> FALSE, blindSpotRight |-> FALSE,
    customSignals |-> 0, onroadAdjustableProfiles |-> FALSE,
    setSpeed |-> 0, is_cruise_set |-> FALSE, speed |-> 0, speedUnit |-> "",
    v_ego_cluster_seen |-> FALSE, vtscOffset |-> 0 ]

SET_SPEED_NA == 255
KM_TO_MILE == 621371

\* lines 538-543: the set speed in thousandths and whether cruise is set
VCruiseOf(s) == IF s.v_cruise_cluster = 0 THEN s.v_cruise ELSE s.v_cruise_cluster

SetSpeedRaw(s) == IF s.cs_alive THEN VCruiseOf(s) ELSE SET_SPEED_NA

IsCruiseSet(s) == SetSpeedRaw(s) > 0 /\ SetSpeedRaw(s) # SET_SPEED_NA

SetSpeedAlwaysMiles(s) ==
  IF ~s.is_metric
  THEN (SetSpeedRaw(s) * KM_TO_MILE) \div Milli
  ELSE SetSpeedRaw(s) * Milli

SetSpeedOf(s) ==
  IF IsCruiseSet(s) /\ ~s.is_metric
  THEN (SetSpeedRaw(s) * KM_TO_MILE) \div Milli
  ELSE SetSpeedRaw(s) * Milli

\* lines 546-549: the latch and the speed in thousandths
ClusterSeenOf(n, s) == n.v_ego_cluster_seen \/ s.v_ego_cluster # 0

VEgoUnlatched(n, s) ==
  IF s.v_ego_cluster # 0 THEN s.v_ego_cluster ELSE s.v_ego

VEgoOf(n, s) ==
  IF ClusterSeenOf(n, s) THEN s.v_ego_cluster ELSE s.v_ego

SpeedSigned(n, s) ==
  (IF s.cs_alive THEN VEgoOf(n, s) ELSE 0) * SpeedFactor(s.is_metric)

SpeedOf(n, s) ==
  (IF s.cs_alive THEN (IF VEgoOf(n, s) > 0 THEN VEgoOf(n, s) ELSE 0) ELSE 0)
    * SpeedFactor(s.is_metric)

\* lines 552-556, with the slcSpeedLimit and slcSpeedLimitOffset the widget
\* holds when updateState is entered
SpeedLimitOf(n, s, slcOffsetShown) ==
  LET raw == IF s.nav_alive THEN s.nav_speed_limit
             ELSE IF n.slcSpeedLimit # 0 THEN n.slcSpeedLimit ELSE 0
      scaled == raw * SpeedFactor(s.is_metric)
  IN IF n.slcSpeedLimit # 0
     THEN Round(scaled - (IF slcOffsetShown THEN n.slcSpeedLimitOffset ELSE 0))
     ELSE scaled

\* line 561, with the customSignals and turn signals the widget holds when
\* updateState is entered
HideBottomIconsOf(n, s) ==
  \/ s.alert_size # "NONE"
  \/ (n.customSignals # 0 /\ (n.turnSignalLeft \/ n.turnSignalRight))
  \/ s.show_driver_camera

\* the caches updateState leaves, in the order of its assignments: the
\* values of lines 551-561 first, the FrogPilot variables of 587-622 last
NvgUpdate(n, s, slcOffsetShown) ==
  [ speedLimit |-> SpeedLimitOf(n, s, slcOffsetShown),
    has_us_speed_limit |-> (s.nav_alive /\ s.sign = "MUTCD") \/ n.slcSpeedLimit # 0,
    has_eu_speed_limit |-> s.nav_alive /\ s.sign = "VIENNA",
    is_metric |-> s.is_metric,
    hideBottomIcons |-> HideBottomIconsOf(n, s),
    slcSpeedLimit |-> s.speed_limit,
    slcSpeedLimitOffset |-> s.speed_limit_offset * SpeedFactor(s.is_metric),
    turnSignalLeft |-> s.turn_signal_left,
    turnSignalRight |-> s.turn_signal_right,
    blindSpotLeft |-> s.blind_spot_left,
    blindSpotRight |-> s.blind_spot_right,
    customSignals |-> s.custom_signals,
    onroadAdjustableProfiles |-> s.personalities_via_screen,
    setSpeed |-> SetSpeedOf(s),
    is_cruise_set |-> IsCruiseSet(s),
    speed |-> SpeedOf(n, s),
    speedUnit |-> IF s.is_metric THEN "km/h" ELSE "mph",
    v_ego_cluster_seen |-> ClusterSeenOf(n, s),
    vtscOffset |-> (s.vtsc_offset * SpeedFactor(s.is_metric) + 9 * n.vtscOffset) \div 10 ]

\* lines 506-516 and 632-642: the four images of the theme, each regular and
\* mirrored, loaded twice, then the red blind-spot image, regular and mirrored
SignalImages(theme) ==
  LET pass == [k \in 1..8 |-> [theme |-> theme, image |-> (k + 1) \div 2,
                               flipped |-> (k % 2 = 0)]]
  IN pass \o pass \o << [theme |-> theme, image |-> "red", flipped |-> FALSE],
                        [theme |-> theme, image |-> "red", flipped |-> TRUE] >>

NvgUpdateState(s) ==
  /\ nvg' = NvgUpdate(nvg, s, displaySLCOffset)
  /\ signalImgVector' = IF nvg.customSignals # s.custom_signals
                        THEN SignalImages(s.custom_signals) ELSE signalImgVector
  /\ UNCHANGED animationFrameIndex
  /\ btnVisible' = IF btnEnabled THEN ~HideBottomIconsOf(nvg, s) ELSE btnVisible
  /\ personalityVisible' = (nvg.onroadAdjustableProfiles /\ ~HideBottomIconsOf(nvg, s)
                            /\ ~s.show_driver_camera)

\* AnnotatedCameraWidget::updateState run on its own
updateState(s) ==
  /\ NvgUpdateState(s)
  /\ ev' = [op |-> "updateState", s |-> s]
  /\ UNCHANGED <<pre, params, pending, reverseCruiseIncrease, speedHidden, displaySLCOffset,
                 clickTimerActive, posted, map, mapVisible, split, doomed, btnEnabled,
                 hasPrime, mapboxToken, offroad, alert>>
  /\ UNCHANGED <<skip_frame_count, frames, wide_cam_requested, streamType,
                 activeStreamType, sceneWideCam, sceneModelFrame, skippedInRow, uvars, ovars>>

(***************************************************************************)
(* The turn-signal animation                                               *)
(***************************************************************************)
totalFrames == 8

\* line 521
AnimationStepUnwrapped(i) == i + 1

AnimationStep(i) == (i + 1) % totalFrames

\* the animation timer of lines 519-524 fires
animationTimerTimeout ==
  /\ animationFrameIndex' = AnimationStep(animationFrameIndex)
  /\ ev' = [op |-> "animationTimer"]
  /\ UNCHANGED <<wvars, pre, nvg, personalityVisible, skip_frame_count, frames,
                 wide_cam_requested, streamType, activeStreamType, sceneWideCam,
                 sceneModelFrame, skippedInRow, signalImgVector, uvars, ovars>>

\* lines 1648-1649: the index of the image drawn, counted from 0
SignalIndexOfHalf(frame, size, flip, blindspot) ==
  (IF blindspot THEN 2 * (size \div 2) ELSE (2 * frame) % totalFrames)
    + (IF flip THEN 1 ELSE 0)

SignalIndex(frame, size, flip, blindspot) ==
  (IF blindspot THEN 2 * (size \div 4) ELSE (2 * frame) % totalFrames)
    + (IF flip THEN 1 ELSE 0)

\* lines 787 and 1644-1657: the signals drawHud draws, each with the index
\* of its image
DrawnSignals(n, frame, images) ==
  IF n.customSignals # 0 /\ (n.turnSignalLeft \/ n.turnSignalRight)
     /\ frame >= 0 /\ frame < Len(images)
  THEN (IF n.turnSignalLeft
        THEN { [side |-> "left", blindspot |-> n.blindSpotLeft,
                index |-> SignalIndex(frame, Len(images), FALSE, n.blindSpotLeft)] }
        ELSE {})
       \cup
       (IF n.turnSignalRight
        THEN { [side |-> "right", blindspot |-> n.blindSpotRight,
                index |-> SignalIndex(frame, Len(images), TRUE, n.blindSpotRight)] }
        ELSE {})
  ELSE {}

(***************************************************************************)
(* AnnotatedCameraWidget::paintGL                                          *)
(***************************************************************************)
MaxFrames == 2

\* what paintGL reads besides the widget: the streams the camera thread
\* found, carState, controlsState, the model frame received since the car
\* started (0: none) and the scene
AllPaintInputs ==
  [ available_streams : { {"road"}, {"road", "wide"}, {"wide"} },
    wide_camera_disabled : BOOLEAN, v_ego : {5, 12, 20},
    experimentalMode : BOOLEAN, calibration_wide_valid : BOOLEAN,
    show_driver_camera : BOOLEAN, worldObjectsVisible : BOOLEAN,
    modelFrame : {0, 1} ]

Unusual(in) ==
  { f \in {"wide_camera_disabled", "show_driver_camera"} : in[f] }
    \cup { f \in {"calibration_wide_valid", "worldObjectsVisible"} : ~in[f] }

PaintInputs == { in \in AllPaintInputs : Cardinality(Unusual(in)) <= 1 }

\* lines 1175-1186
WideCamRequested(req, in) ==
  IF "wide" \in in.available_streams /\ ~in.wide_camera_disabled
  THEN LET bySpeed == IF in.v_ego < 10 \/ Cardinality(in.available_streams) = 1 THEN TRUE
                      ELSE IF in.v_ego > 15 THEN FALSE
                      ELSE req
       IN bySpeed /\ in.experimentalMode /\ in.calibration_wide_valid
  ELSE req

\* line 1188
StreamFor(req, in) ==
  IF in.show_driver_camera THEN "driver" ELSE IF req THEN "wide" ELSE "road"

\* lines 1207-1208: update_model recomputes the scene's polygons
ModelUpdated(in) == ~in.show_driver_camera /\ in.worldObjectsVisible /\ in.modelFrame > 0

\* what lines 1205-1235 draw
Drawn(n, in) ==
  IF in.show_driver_camera THEN {}
  ELSE {"hud"}
       \cup (IF in.worldObjectsVisible THEN {"laneLines"} ELSE {})
       \cup (IF n.has_us_speed_limit THEN {"us_sign"} ELSE {})
       \cup (IF n.has_eu_speed_limit THEN {"eu_sign"} ELSE {})

\* std::nearbyint of a value in thousandths: to the nearest integer, ties
\* to the even one
NearbyInt(m) ==
  LET fl == m \div Milli
      rem == m - fl * Milli
  IN IF 2 * rem < Milli THEN fl
     ELSE IF 2 * rem > Milli THEN fl + 1
     ELSE IF fl % 2 = 0 THEN fl ELSE fl + 1

\* lines 657-658: the speed and set-speed strings of drawHud
SetSpeedStr(n) ==
  IF n.is_cruise_set
  THEN <<"number", NearbyInt(n.setSpeed - (IF n.vtscOffset > Milli THEN n.vtscOffset - Milli ELSE 0))>>
  ELSE <<"dash">>

HudText(n) ==
  [speedStr |-> NearbyInt(n.speed), setSpeedStr |-> SetSpeedStr(n), speedUnit |-> n.speedUnit]

\* the frame counter of lines 1161-1172: the value it takes and whether the
\* call returns at line 1165
SkipsFrame(empty, count) == empty /\ count > 0

SkipCountAfterKept(empty, count) ==
  IF empty THEN count ELSE 5

SkipCountAfter(empty, count) ==
  IF empty THEN (IF count > 0 THEN count - 1 ELSE count) ELSE 5

\* line 1187: the put of the wide request into the memory store
WideCameraPutNegated(req) == << <<"memory", "WideCamera", ~req>> >>

WideCameraPut(req) == << <<"memory", "WideCamera", req>> >>

\* lines 1245-1249: the uiDebug messages a call that draws publishes
UiDebugSentWithHud(in) == IF in.show_driver_camera THEN 0 ELSE 1

UiDebugSent(in) == 1

paintGL(in) ==
  LET empty == frames = 0
      skipped == SkipsFrame(empty, skip_frame_count)
      req == WideCamRequested(wide_cam_requested, in)
      before == [wide_cam |-> sceneWideCam, modelFrame |-> sceneModelFrame]
  IN
  /\ paintPc = "idle" /\ frame_lock = "free"
  /\ skip_frame_count' = SkipCountAfter(empty, skip_frame_count)
  /\ IF skipped
     THEN /\ skippedInRow' = skippedInRow + 1
          /\ ev' = [op |-> "paintGL", skipped |-> TRUE, empty |-> empty,
                    count |-> skip_frame_count, before |-> before,
                    writes |-> << >>, drawn |-> {}, signals |-> {}, hud |-> << >>, sent |-> 0,
                    fps_updates |-> 0, prev_draw_t |-> "kept"]
          /\ UNCHANGED <<wide_cam_requested, streamType, sceneWideCam, sceneModelFrame>>
     ELSE /\ skippedInRow' = 0
          /\ wide_cam_requested' = req
          /\ streamType' = StreamFor(req, in)
          /\ sceneWideCam' = (activeStreamType = "wide")
          /\ sceneModelFrame' = IF ModelUpdated(in) THEN in.modelFrame ELSE sceneModelFrame
          /\ ev' = [op |-> "paintGL", skipped |-> FALSE, empty |-> empty,
                    count |-> skip_frame_count, before |-> before,
                    writes |-> WideCameraPut(req),
                    drawn |-> Drawn(nvg, in),
                    signals |-> IF in.show_driver_camera THEN {}
                                ELSE DrawnSignals(nvg, animationFrameIndex, signalImgVector),
                    hud |-> IF in.show_driver_camera THEN << >> ELSE <<HudText(nvg)>>,
                    sent |-> UiDebugSent(in),
                    fps_updates |-> 1, prev_draw_t |-> "cur_draw_t"]
  /\ UNCHANGED <<wvars, pre, nvg, personalityVisible, frames, activeStreamType, avars, uvars, ovars>>

\* paintGL step by step, as the camera thread sees it: the lock_guard of line
\* 1159 is taken, the block of lines 1158-1200 runs and its end or the return
\* of line 1165 destroys the guard, then lines 1202-1249 draw and publish
LockAfterFrameKeptOnSkip(skipped) == IF skipped THEN "ui" ELSE "free"

LockAfterFrame(skipped) == "free"

paintGLLock ==
  /\ paintPc = "idle" /\ frame_lock = "free"
  /\ frame_lock' = "ui"
  /\ paintPc' = "locked"
  /\ ev' = [op |-> "paintGL.lock"]
  /\ UNCHANGED <<wvars, pre, nvg, personalityVisible, skip_frame_count, frames,
                 wide_cam_requested, streamType, activeStreamType, sceneWideCam,
                 sceneModelFrame, skippedInRow, avars, statusBar, pbtn, ovars>>

paintGLFrame(in) ==
  LET empty == frames = 0
      skipped == SkipsFrame(empty, skip_frame_count)
      req == WideCamRequested(wide_cam_requested, in)
  IN
  /\ paintPc = "locked"
  /\ skip_frame_count' = SkipCountAfter(empty, skip_frame_count)
  /\ IF skipped
     THEN /\ skippedInRow' = skippedInRow + 1
          /\ ev' = [op |-> "paintGL.frame", skipped |-> TRUE, lock |-> frame_lock,
                    done |-> <<"frames.empty">>, writes |-> << >>]
          /\ UNCHANGED <<wide_cam_requested, streamType, sceneWideCam>>
     ELSE /\ skippedInRow' = 0
          /\ wide_cam_requested' = req
          /\ streamType' = StreamFor(req, in)
          /\ sceneWideCam' = (activeStreamType = "wide")
          /\ ev' = [op |-> "paintGL.frame", skipped |-> FALSE, lock |-> frame_lock,
                    done |-> <<"frames.empty", "setStreamType", "updateCalibration",
                               "setFrameId", "CameraWidget::paintGL">>,
                    writes |-> WideCameraPut(req)]
  /\ frame_lock' = LockAfterFrame(skipped)
  /\ paintPc' = IF skipped THEN "idle" ELSE "overlay"
  /\ UNCHANGED <<wvars, pre, nvg, personalityVisible, frames, activeStreamType,
                 sceneModelFrame, avars, statusBar, pbtn, ovars>>

paintGLOverlay(in) ==
  /\ paintPc = "overlay"
  /\ sceneModelFrame' = IF ModelUpdated(in) THEN in.modelFrame ELSE sceneModelFrame
  /\ ev' = [op |-> "paintGL.overlay", lock |-> frame_lock,
            drawn |-> Drawn(nvg, in), sent |-> UiDebugSent(in)]
  /\ paintPc' = "idle"
  /\ UNCHANGED <<wvars, pre, nvg, personalityVisible, skip_frame_count, frames,
                 wide_cam_requested, streamType, activeStreamType, sceneWideCam,
                 skippedInRow, avars, statusBar, pbtn, frame_lock, ovars>>

\* OnroadWindow::paintEvent fills the border and draws the FPS line
paintEvent ==
  /\ ev' = [op |-> "paintEvent",
            before |-> [wide_cam |-> sceneWideCam, modelFrame |-> sceneModelFrame]]
  /\ UNCHANGED <<wvars, cvars, pre>>

\* the camera thread: it reconnects to the requested stream, which empties
\* the frame buffer, and buffers the frames it receives
vipcThreadConnect ==
  /\ frame_lock = "free"
  /\ activeStreamType # streamType
  /\ activeStreamType' = streamType
  /\ frames' = 0
  /\ ev' = [op |-> "vipcThreadConnect"]
  /\ UNCHANGED <<wvars, pre, nvg, personalityVisible, skip_frame_count, wide_cam_requested,
                 streamType, sceneWideCam, sceneModelFrame, skippedInRow, avars, uvars, ovars>>

vipcFrameReceived ==
  /\ frame_lock = "free"
  /\ frames < MaxFrames
  /\ frames' = frames + 1
  /\ ev' = [op |-> "vipcFrameReceived"]
  /\ UNCHANGED <<wvars, pre, nvg, personalityVisible, skip_frame_count, wide_cam_requested,
                 streamType, activeStreamType, sceneWideCam, sceneModelFrame, skippedInRow, avars, uvars, ovars>>

\* the camera stops: the thread empties the buffer
vipcDisconnected ==
  /\ frame_lock = "free"
  /\ frames > 0
  /\ frames' = 0
  /\ ev' = [op |-> "vipcDisconnected"]
  /\ UNCHANGED <<wvars, pre, nvg, personalityVisible, skip_frame_count, wide_cam_requested,
                 streamType, activeStreamType, sceneWideCam, sceneModelFrame, skippedInRow, avars, uvars, ovars>>

(***************************************************************************)
(* AnnotatedCameraWidget::drawLaneLines: the path's gradients              *)
(***************************************************************************)
MaxPathLen == 3

\* a point of the path: whether its acceleration lies within -0.2..0.2 and
\* whether its vertex lies in the frame
PathPoints == [accel : {"low", "high"}, inFrame : BOOLEAN]

\* what the path's gradients depend on: controlsState's experimental mode,
\* the cached toggles, the scene's navigate_on_openpilot and the points of
\* the path with their accelerations
LaneInputs ==
  [ csExperimentalMode : BOOLEAN, accelerationPath : BOOLEAN,
    customColors : {0, 1}, alwaysOnLateral : BOOLEAN,
    conditionalStatus : ConditionalStatuses, experimentalMode : BOOLEAN,
    navigate_on_openpilot : BOOLEAN,
    points : UNION { [1..n -> PathPoints] : n \in 0..MaxPathLen } ]

\* gradient stops at 0, 0.5 and 1, in hundredths, with the colours of mode m;
\* a stop lies at a fixed position or at the height of a point of the path
Stops3(m) == { [pos |-> <<"at", q>>, mode |-> m] : q \in {0, 50, 100} }

\* the loop of lines 870-897 from the i-th point on: a stop per point drawn
RECURSIVE TrackStops(_, _, _)
TrackStops(points, i, customColors) ==
  IF i > Len(points) THEN {}
  ELSE IF ~points[i].inFrame THEN TrackStops(points, i + 1, customColors)
  ELSE IF points[i].accel = "low" /\ customColors # 0
       THEN Stops3("theme") \cup TrackStops(points, i + 1, customColors)
       ELSE { [pos |-> <<"point", i>>, mode |-> "experimental"] }
            \cup TrackStops(points, IF (i - 1) + 2 < Len(points) THEN i + 2 ELSE i + 1,
                            customColors)

\* lines 858-910: the gradient of the path polygon
PathStops(in) ==
  IF in.csExperimentalMode \/ in.accelerationPath THEN TrackStops(in.points, 1, in.customColors)
  ELSE IF in.customColors # 0 THEN Stops3("theme")
  ELSE Stops3("default")

\* lines 920-945: the mode whose colours the path edges take
PathEdgeModeThemeFirst(in) ==
  IF in.customColors # 0 THEN "theme"
  ELSE IF in.alwaysOnLateral THEN "alwaysOnLateral"
  ELSE IF in.conditionalStatus = 1 THEN "conditional"
  ELSE IF in.experimentalMode THEN "experimental"
  ELSE IF in.navigate_on_openpilot THEN "navigation"
  ELSE "default"

PathEdgeMode(in) ==
  IF in.alwaysOnLateral THEN "alwaysOnLateral"
  ELSE IF in.conditionalStatus = 1 THEN "conditional"
  ELSE IF in.experimentalMode THEN "experimental"
  ELSE IF in.navigate_on_openpilot THEN "navigation"
  ELSE IF in.customColors # 0 THEN "theme"
  ELSE "default"

\* the gradients drawLaneLines sets for the input that pre holds
drawLaneLines ==
  /\ pre.op = "laneInput"
  /\ ev.op = "init"
  /\ ev' = [op |-> "drawLaneLines", polygon |-> PathStops(pre.in),
            edges |-> Stops3(PathEdgeMode(pre.in))]
  /\ UNCHANGED <<wvars, cvars, pre>>

(***************************************************************************)
(* AnnotatedCameraWidget::drawLead                                         *)
(***************************************************************************)
MaxDRel == 102

\* distances in metres, relative and lead speeds in m/s
DRels == 0..MaxDRel
VRels == {-30, -26, -25, -24, -11, -10, -9, -5, -1, 0, 3}
VLeads == {-2, 15}

\* the lead of the model message and the customColors and leadInfo members
LeadInputs ==
  { in \in [ d_rel : DRels, v_rel : VRels, v_lead : VLeads \cup {0},
             customColors : {0, 1}, leadInfo : BOOLEAN ] :
      in.leadInfo <=> in.v_lead # 0 }

\* lines 1070-1071
speedBuff(customColors) == IF customColors # 0 THEN 25 ELSE 10
leadBuff(customColors) == IF customColors # 0 THEN 100 ELSE 40

Min(a, b) == IF a < b THEN a ELSE b
Max(a, b) == IF a > b THEN a ELSE b

\* lines 1075-1082: 255 * (1 - d_rel / leadBuff), plus 255 * -v_rel / speedBuff
\* for a closing lead, capped at 255 and truncated; the sum is taken over the
\* common denominator leadBuff * speedBuff
FillAlphaUncapped(d_rel, v_rel, customColors) ==
  LET L == leadBuff(customColors)
      S == speedBuff(customColors)
      num == 255 * (L - d_rel) * S + (IF v_rel < 0 THEN 255 * (0 - v_rel) * L ELSE 0)
  IN IF d_rel < L THEN num \div (L * S) ELSE 0

FillAlpha(d_rel, v_rel, customColors) ==
  LET L == leadBuff(customColors)
      S == speedBuff(customColors)
      num == 255 * (L - d_rel) * S + (IF v_rel < 0 THEN 255 * (0 - v_rel) * L ELSE 0)
  IN IF d_rel < L THEN Min(num \div (L * S), 255) ELSE 0

\* line 1084: clamp(25 * 30 / (d_rel / 3 + 30), 15, 30) * 2.35, in thousandths
ChevronSize(d_rel) ==
  (Max(15 * Milli, Min((25 * 30 * 3 * Milli) \div (d_rel + 90), 30 * Milli)) * 235) \div 100

\* lines 1105-1128: the lead-info text, its numbers in hundred-thousandths
toFeet == 328084
toMph == 223694
toKmph == 360000

\* QString::arg(value, 0, 'f', 2): the value in hundred-thousandths printed
\* with two decimals, as hundredths
TwoDecimals(x) == (x + 500) \div 1000

LeadInfoText(metric, in) ==
  LET lead_speed == Max(in.v_lead, 0)
  IN IF metric
     THEN [distance |-> TwoDecimals(in.d_rel * 100000), unit_d |-> "meters",
           speed |-> TwoDecimals(lead_speed * toKmph), unit_s |-> "km/h"]
     ELSE [distance |-> TwoDecimals(in.d_rel * toFeet), unit_d |-> "feet",
           speed |-> TwoDecimals(lead_speed * toMph), unit_s |-> "mph"]

\* what drawLead draws for a lead, with the is_metric that updateState cached
drawLead(in) ==
  /\ ev' = [op |-> "drawLead", in |-> in,
            fillAlpha |-> FillAlpha(in.d_rel, in.v_rel, in.customColors),
            sz |-> ChevronSize(in.d_rel),
            text |-> IF in.leadInfo THEN <<LeadInfoText(nvg.is_metric, in)>> ELSE << >>]
  /\ UNCHANGED <<wvars, cvars, pre>>

(***************************************************************************)
(* AnnotatedCameraWidget::drawStatusBar                                    *)
(***************************************************************************)
\* times are counted in ticks of 4 ms, so that 2^31 ms is a number of ticks
Tick == 4
fadeDuration == 1500 \div Tick
textDuration == 5000 \div Tick
\* 2^31 ms, the first elapsed time an int does not hold
IntRange == 536870912
\* the paints come in steps up to MaxElapsed ticks after a restart, and once
\* more 2^31 ms later
MaxElapsed == 2000

\* the statics before the first call: the timer never started, no status
\* shown; since remembers what restarted the timer last
StatusBarStatics ==
  [ started |-> FALSE, timer |-> 0, lastShownStatus |-> "",
    displayStatusText |-> FALSE, since |-> "never" ]

\* the members the status bar reads and the RoadName parameter
StatusBarInputs ==
  { in \in [ alwaysOnLateral : BOOLEAN, conditionalExperimental : BOOLEAN,
             conditionalStatus : {0, 1, 13}, disengaged : BOOLEAN,
             mapOpen : BOOLEAN, roadNameUI : BOOLEAN, RoadName : {"", "Main St"} ] :
      /\ in.alwaysOnLateral \/ in.conditionalExperimental \/ in.roadNameUI
      /\ in.conditionalStatus # 0 => (in.conditionalExperimental /\ ~in.alwaysOnLateral)
      /\ in.disengaged => in.conditionalStatus = 1
      /\ in.mapOpen => in.alwaysOnLateral
      /\ in.RoadName # "" => in.roadNameUI }

\* ticks between two paints (0, 2500 and 3500 ms, 2^31 ms), and what
\* elapsed() of a timer that was never started may return
TimeSteps == {0, 625, 875, IntRange}
InvalidElapsed == {-1, 175, 1750}

\* line 1547
RoadNameOf(in) == IF in.roadNameUI THEN in.RoadName ELSE ""

\* lines 1552-1574: the status before the suffix; of the conditional statuses
\* only those whose text does not depend on mapOpen are drawn from
NewStatusOf(in) ==
  IF in.alwaysOnLateral
  THEN (IF in.mapOpen THEN "Always On Lateral active"
        ELSE "Always On Lateral active. Press the Cruise Control button to disable")
  ELSE IF in.conditionalExperimental
  THEN (IF in.conditionalStatus = 1 /\ ~in.disengaged
        THEN "Conditional Experimental overridden"
        ELSE "Conditional Experimental Mode ready")
  ELSE ""

\* line 1591: the conversion of the qint64 of elapsed() to int
ToInt(x) ==
  LET m == x % (2 * IntRange) IN IF m >= IntRange THEN m - 2 * IntRange ELSE m

\* qBound(lo, x, hi)
Bound(lo, x, hi) == Max(lo, Min(x, hi))

\* lines 1589-1598: the opacities, as multiples of 1 / fadeDuration
Opacities(display, elapsed) ==
  IF display
  THEN LET status == Bound(0, fadeDuration - (elapsed - textDuration), fadeDuration)
       IN [statusText |-> status, roadName |-> fadeDuration - status]
  ELSE LET road == Bound(0, elapsed, fadeDuration)
       IN [statusText |-> fadeDuration - road, roadName |-> road]

\* one call of drawStatusBar, dt ms after the previous one
drawStatusBar(in, dt, garbage) ==
  LET t == statusBar.timer + dt
      newStatus == NewStatusOf(in)
      changed == newStatus # statusBar.lastShownStatus
      restart == changed \/ RoadNameOf(in) = ""
      expired == statusBar.displayStatusText /\ t > textDuration + fadeDuration
      display == IF restart THEN TRUE
                 ELSE IF expired THEN FALSE ELSE statusBar.displayStatusText
      started == statusBar.started \/ restart
      timer == IF restart THEN 0 ELSE IF statusBar.started THEN t ELSE 0
      elapsed == IF started THEN ToInt(timer) ELSE garbage
      o == Opacities(display, elapsed)
  IN
  /\ statusBar.started =>
       \/ t <= MaxElapsed
       \/ dt = 0
       \/ dt = IntRange /\ statusBar.timer <= MaxElapsed
  /\ ~statusBar.started => dt = 0
  /\ started => garbage = 0
  /\ statusBar' = [ started |-> started, timer |-> timer,
                    lastShownStatus |-> IF restart THEN newStatus
                                        ELSE statusBar.lastShownStatus,
                    displayStatusText |-> display,
                    since |-> IF restart
                              THEN (IF changed /\ RoadNameOf(in) # "" THEN "status"
                                    ELSE "road")
                              ELSE statusBar.since ]
  /\ ev' = [op |-> "drawStatusBar", restarted |-> restart,
            roadName |-> RoadNameOf(in), newStatus |-> newStatus, elapsed |-> elapsed,
            statusTextOpacity |-> o.statusText, roadNameOpacity |-> o.roadName]
  /\ UNCHANGED <<wvars, pre, nvg, personalityVisible, skip_frame_count, frames,
                 wide_cam_requested, streamType, activeStreamType, sceneWideCam,
                 sceneModelFrame, skippedInRow, avars, pbtn, frame_lock, paintPc, ovars>>

(***************************************************************************)
(* PersonalityButton                                                       *)
(***************************************************************************)
Profiles == {0, 1, 2}

\* lines 1457-1482: the button after its constructor, with the stored
\* LongitudinalPersonality it read; clicked remembers the profiles the
\* consecutive clicks started from
PersonalityButton(stored) ==
  [ personalityProfile |-> stored, LongitudinalPersonality |-> stored,
    PersonalityChangedViaUI |-> FALSE, clicked |-> << >> ]

\* line 1493: mapping[] = {2, 0, 1}
MappingUpwards(profile) == <<1, 2, 0>>[profile + 1]

Mapping(profile) == <<2, 0, 1>>[profile + 1]

\* lines 1492-1498
handleClick ==
  LET next == Mapping(pbtn.personalityProfile)
  IN
  /\ pbtn' = [ personalityProfile |-> next, LongitudinalPersonality |-> next,
               PersonalityChangedViaUI |-> TRUE,
               clicked |-> IF Len(pbtn.clicked) >= 3 THEN <<pbtn.personalityProfile>>
                           ELSE Append(pbtn.clicked, pbtn.personalityProfile) ]
  /\ ev' = [op |-> "handleClick", before |-> pbtn.personalityProfile,
            transitionTimer |-> "restarted"]
  /\ UNCHANGED <<wvars, pre, nvg, personalityVisible, skip_frame_count, frames,
                 wide_cam_requested, streamType, activeStreamType, sceneWideCam,
                 sceneModelFrame, skippedInRow, avars, statusBar, frame_lock, paintPc, ovars>>

\* lines 1484-1490: the parameter is read twice, and another process may
\* store the profile `between` in between (-1: none does)
checkUpdate(between) ==
  LET differs == pbtn.LongitudinalPersonality # pbtn.personalityProfile
      stored == IF differs /\ between # -1 THEN between ELSE pbtn.LongitudinalPersonality
  IN
  /\ pbtn' = [ pbtn EXCEPT !.LongitudinalPersonality = stored,
                           !.personalityProfile = IF differs THEN stored ELSE @,
                           !.clicked = IF differs THEN << >> ELSE @ ]
  /\ ev' = [op |-> "checkUpdate", before |-> pbtn.personalityProfile,
            transitionTimer |-> IF differs THEN "restarted" ELSE "running"]
  /\ UNCHANGED <<wvars, pre, nvg, personalityVisible, skip_frame_count, frames,
                 wide_cam_requested, streamType, activeStreamType, sceneWideCam,
                 sceneModelFrame, skippedInRow, avars, statusBar, frame_lock, paintPc, ovars>>

\* the process behind the steering-wheel button stores a profile, and takes
\* note of a change made on the screen
wheelButton(profile) ==
  /\ pbtn' = [pbtn EXCEPT !.LongitudinalPersonality = profile]
  /\ ev' = [op |-> "wheelButton"]
  /\ UNCHANGED <<wvars, pre, nvg, personalityVisible, skip_frame_count, frames,
                 wide_cam_requested, streamType, activeStreamType, sceneWideCam,
                 sceneModelFrame, skippedInRow, avars, statusBar, frame_lock, paintPc, ovars>>

personalityChangeNoted ==
  /\ pbtn.PersonalityChangedViaUI
  /\ pbtn' = [pbtn EXCEPT !.PersonalityChangedViaUI = FALSE]
  /\ ev' = [op |-> "personalityChangeNoted"]
  /\ UNCHANGED <<wvars, pre, nvg, personalityVisible, skip_frame_count, frames,
                 wide_cam_requested, streamType, activeStreamType, sceneWideCam,
                 sceneModelFrame, skippedInRow, avars, statusBar, frame_lock, paintPc, ovars>>

(***************************************************************************)
(* ExperimentalButton::changeMode                                          *)
(***************************************************************************)
Cars == [longitudinal : BOOLEAN, confirmed : BOOLEAN]

\* line 376: the override value the button computes
ButtonOverrideValueFromFive(cs) ==
  IF cs = 1 \/ cs = 2 \/ cs = 3 \/ cs = 4 THEN 0 ELSE IF cs > 5 THEN 3 ELSE 4

ButtonOverrideValue(cs) ==
  IF cs = 1 \/ cs = 2 \/ cs = 3 \/ cs = 4 THEN 0 ELSE IF cs >= 5 THEN 3 ELSE 4

\* lines 372-382: the writes of a click on the button
ChangeModeWrites(sc) ==
  IF car.longitudinal /\ car.confirmed
  THEN IF sc.conditional_experimental
       THEN << <<"memory", "ConditionalStatus", ButtonOverrideValue(sc.conditional_status)>> >>
       ELSE << <<"params", "ExperimentalMode", ~params["ExperimentalMode"]>> >>
  ELSE << >>

changeMode(sc) ==
  LET ws == ChangeModeWrites(sc)
  IN
  /\ Len(pending) + Len(Queued(ws)) <= MaxPending
  /\ pending' = pending \o Queued(ws)
  /\ ev' = [op |-> "changeMode", writes |-> ws]
  /\ UNCHANGED <<cvars, pre, params, reverseCruiseIncrease, speedHidden, displaySLCOffset,
                 clickTimerActive, posted, map, mapVisible, split, doomed,
                 btnEnabled, btnVisible, hasPrime, mapboxToken, offroad, alert>>

\* the FPS accumulators after the constructor
FpsConstructed ==
  [ displayFPS |-> FALSE, fps |-> 0, minFPS |-> 999, maxFPS |-> 0,
    avgFPS |-> <<0, 1>>, totalFPS |-> 0, frameCount |-> 0, sinceReset |-> -1 ]

(***************************************************************************)
(* OnroadWindow::updateState                                               *)
(***************************************************************************)
\* frame rates are kept in tenths of a frame per second; avgFPS is the exact
\* quotient <<numerator, denominator>> (the double's rounding is left out)
minAllowedFPS == 1
maxAllowedFPS == 999
oneMinuteInMilliseconds == 60000

\* bound of the samples accumulated between two resets
MaxSamples == 3

\* the statuses of UIState and their border colours
Statuses == {"disengaged", "engaged"}
bg_colors == [disengaged |-> "grey", engaged |-> "green"]

\* lines 129-136: the accumulators after the reset
FpsReset(st) ==
  [st EXCEPT !.avgFPS = <<0, 1>>, !.frameCount = 0, !.minFPS = maxAllowedFPS,
             !.maxFPS = minAllowedFPS, !.totalFPS = 0, !.sinceReset = 0]

\* lines 139-144 without the qBound of line 139
FpsSampleUnbounded(st, sample) ==
  [st EXCEPT !.fps = sample,
             !.minFPS = Min(st.minFPS, sample),
             !.maxFPS = Max(st.maxFPS, sample),
             !.frameCount = st.frameCount + 1,
             !.totalFPS = st.totalFPS + sample,
             !.avgFPS = <<st.totalFPS + sample, st.frameCount + 1>>]

\* lines 139-144: the sample is bounded, then accumulated
FpsSample(st, sample) ==
  LET f == Bound(minAllowedFPS, sample, maxAllowedFPS)
  IN  [st EXCEPT !.fps = f,
                 !.minFPS = Min(st.minFPS, f),
                 !.maxFPS = Max(st.maxFPS, f),
                 !.frameCount = st.frameCount + 1,
                 !.totalFPS = st.totalFPS + f,
                 !.avgFPS = <<st.totalFPS + f, st.frameCount + 1>>]

\* currentMillis - lastResetTime >= oneMinuteInMilliseconds; the static
\* lastResetTime is initialised by the first run of line 125, which
\* therefore finds no time elapsed
ResetDue(st) == st.sinceReset >= oneMinuteInMilliseconds

\* lines 116-146
FpsUpdate(st, display_fps, sample) ==
  IF display_fps
  THEN LET started == [st EXCEPT !.displayFPS = TRUE,
                                 !.sinceReset = IF st.sinceReset < 0 THEN 0 ELSE st.sinceReset]
       IN  FpsSample(IF ResetDue(started) THEN FpsReset(started) ELSE started, sample)
  ELSE [st EXCEPT !.displayFPS = FALSE]

\* Alert::get for the snapshot
AlertOf(s) == IF s.alert_size = "NONE" THEN "none" ELSE "alert"

\* Repaints with the border repainted on every run
RepaintsEveryRun(in) ==
  <<"border">> \o (IF in.display_fps THEN <<"fps">> ELSE << >>)

\* the update() calls of one run, by what they repaint
Repaints(in) ==
  (IF bg # bg_colors[in.status] THEN <<"border">> ELSE << >>)
  \o (IF in.display_fps THEN <<"fps">> ELSE << >>)

\* the inputs of one run: the scene and status of UIState, and the frame
\* rate the fps member holds when the run starts
WindowInputs(snapshots, samples) ==
  [ started : BOOLEAN, status : Statuses, map_on_left : BOOLEAN,
    display_fps : BOOLEAN, fps : samples, s : snapshots ]

\* ev.read keeps what a run past line 95 read: status, display_fps and fps
windowUpdateState(in) ==
  /\ IF ~in.started
     THEN /\ ev' = [op |-> "windowUpdateState", started |-> FALSE, read |-> << >>,
                    repaints |-> << >>, before |-> fpsStats]
          /\ UNCHANGED <<nvg, avars, btnVisible, personalityVisible, alert,
                         direction, bg, fpsStats>>
     ELSE /\ in.display_fps =>
               (fpsStats.frameCount < MaxSamples \/ ResetDue(fpsStats))
          /\ alert' = AlertOf(in.s)
          /\ direction' = IF in.map_on_left THEN "LeftToRight" ELSE "RightToLeft"
          /\ NvgUpdateState(in.s)
          /\ bg' = bg_colors[in.status]
          /\ fpsStats' = FpsUpdate(fpsStats, in.display_fps, in.fps)
          /\ ev' = [op |-> "windowUpdateState", started |-> TRUE,
                    read |-> <<in.status, in.display_fps, in.fps>>,
                    repaints |-> Repaints(in), before |-> fpsStats]
  /\ UNCHANGED <<pre, params, pending, reverseCruiseIncrease, speedHidden, displaySLCOffset,
                 clickTimerActive, posted, map, mapVisible, split, doomed, btnEnabled,
                 hasPrime, mapboxToken, offroad>>
  /\ UNCHANGED <<skip_frame_count, frames, wide_cam_requested, streamType,
                 activeStreamType, sceneWideCam, sceneModelFrame, skippedInRow, uvars, car>>

\* QDateTime::currentMSecsSinceEpoch() moves on by dt milliseconds
clockAdvance(dt) ==
  /\ fpsStats.sinceReset >= 0
  /\ fpsStats.sinceReset < oneMinuteInMilliseconds
  /\ fpsStats' = [fpsStats EXCEPT !.sinceReset = Min(@ + dt, oneMinuteInMilliseconds)]
  /\ ev' = [op |-> "clock"]
  /\ UNCHANGED <<wvars, pre, nvg, personalityVisible, skip_frame_count, frames,
                 wide_cam_requested, streamType, activeStreamType, sceneWideCam,
                 sceneModelFrame, skippedInRow, avars, uvars, car, bg, direction>>

(***************************************************************************)
(* Initial states                                                          *)
(***************************************************************************)
\* the stores in which the keys of ks hold any value and the others FALSE
ParamsVarying(ks) == { f \in [ParamKeys -> BOOLEAN] : \A k \in ParamKeys \ ks : ~f[k] }

\* the camera widget after construction, with fr frames buffered
InitCameraOf(fr, stored, cars) ==
  /\ nvg = NvgConstructed
  /\ personalityVisible = FALSE
  /\ skip_frame_count = 0
  /\ frames = fr
  /\ wide_cam_requested = FALSE
  /\ streamType = "road"
  /\ activeStreamType = "road"
  /\ sceneWideCam = FALSE
  /\ sceneModelFrame = 0
  /\ skippedInRow = 0
  /\ animationFrameIndex = 0
  /\ signalImgVector = SignalImages(0)
  /\ statusBar = StatusBarStatics
  /\ pbtn = PersonalityButton(stored)
  /\ frame_lock = "free"
  /\ paintPc = "idle"
  /\ car \in cars
  /\ fpsStats = FpsConstructed
  /\ bg = bg_colors["disengaged"]
  /\ direction = "LeftToRight"

InitCameraWith(fr, stored) ==
  InitCameraOf(fr, stored, {[longitudinal |-> TRUE, confirmed |-> TRUE]})

InitCamera(fr) == InitCameraWith(fr, 0)

\* the window after construction (no panel, offroad, timer idle, the cached
\* toggles as the AnnotatedCameraWidget constructor read them) for maps =
\* {"null"} and offs = {TRUE}; with "panel" in maps or FALSE in offs, also
\* the window onroad, with its panel built or without one
InitPanels(stores, maps, primes, tokens, offs) ==
  /\ params \in stores
  /\ pending = << >>
  /\ reverseCruiseIncrease = params["ReverseCruiseIncrease"]
  /\ speedHidden = params["HideSpeed"]
  /\ displaySLCOffset = params["DisplaySLCOffset"]
  /\ clickTimerActive = FALSE
  /\ posted = 0
  /\ map \in maps
  /\ mapVisible \in (IF map = "panel" THEN BOOLEAN ELSE {FALSE})
  /\ split = IF map = "panel" THEN <<"map", "nvg">> ELSE <<"nvg">>
  /\ doomed = 0
  /\ btnEnabled = (map = "panel")
  /\ btnVisible = FALSE
  /\ hasPrime \in (IF map = "panel" THEN {TRUE} ELSE primes)
  /\ mapboxToken \in tokens
  /\ offroad \in (IF map = "panel" THEN {FALSE} ELSE offs)
  /\ alert = "none"

\* the window and its camera widget, no handler run yet
InitWindow(stores, maps, primes, tokens, offs) ==
  /\ InitPanels(stores, maps, primes, tokens, offs)
  /\ ev = [op |-> "init"]
  /\ pre = [op |-> "none"]
  /\ InitCamera(0)

(***************************************************************************)
(* Specifications                                                          *)
(***************************************************************************)
\* inputs of the double-click specification: one point in a widget
\* rectangle, one outside all of them, and the timeout point
PressPositions == { <<100, 100>>, <<1500, 700>>, timeoutPoint }
PressGeometries == { [x |-> 0, w |-> 2160], [x |-> 300, w |-> 1860] }

\* inputs of the hit-test specification
WidgetScenes == { sc \in Scenes : sc.conditional_experimental /\ sc.conditional_status = 0 }

Next ==
  \/ \E p \in PressPositions, g \in PressGeometries, sc \in Scenes : Click(p, g, sc)
  \/ \E g \in PressGeometries, sc \in Scenes : DeliverPosted(g, sc)
  \/ clickTimerTimeout
  \/ ParamsFlush

Init == InitWindow(ParamsVarying({"ReverseCruiseIncrease", "ExperimentalMode"}),
                   {"null", "panel"}, {FALSE}, {FALSE}, {FALSE})

Spec == Init /\ [][Next]_vars

\* one run of the click handler from the state it is drawn in, which pre keeps
ClickOnce(p, g, sc) ==
  /\ pre.op = "none"
  /\ mousePressEvent(p, g, sc, posted > 0)
  /\ pre' = [op |-> "click", pos |-> p, geom |-> g, scene |-> sc,
             params |-> params,
             cached |-> <<reverseCruiseIncrease, speedHidden, displaySLCOffset>>,
             clickTimerActive |-> clickTimerActive,
             map |-> map, mapVisible |-> mapVisible]

NextWidget ==
  \E p \in Positions, g \in Geometries, sc \in WidgetScenes :
     /\ posted > 0 => p = timeoutPoint
     /\ ClickOnce(p, g, sc)

\* the states a click can arrive in: any stored and cached toggles (a
\* queued write or another writer makes them differ), the click timer idle
\* or running, the map panel hidden or visible, a synthetic click posted
InitWidget ==
  /\ params \in ParamsVarying({"ReverseCruiseIncrease", "HideSpeed", "DisplaySLCOffset"})
  /\ pending = << >>
  /\ reverseCruiseIncrease \in BOOLEAN
  /\ speedHidden \in BOOLEAN
  /\ displaySLCOffset \in BOOLEAN
  /\ clickTimerActive \in BOOLEAN
  /\ posted \in 0..1
  /\ posted > 0 => ~clickTimerActive
  /\ map = "panel"
  /\ mapVisible \in BOOLEAN
  /\ split = <<"map", "nvg">>
  /\ doomed = 0
  /\ btnEnabled = TRUE
  /\ btnVisible = FALSE
  /\ hasPrime = TRUE
  /\ mapboxToken = FALSE
  /\ offroad = FALSE
  /\ alert = "none"
  /\ ev = [op |-> "init"]
  /\ pre = [op |-> "none"]
  /\ InitCamera(0)

SpecWidget == InitWidget /\ [][NextWidget]_vars

\* inputs of the map specification: a click no rectangle consumes
MapScenes == { sc \in Scenes : ~sc.conditional_experimental /\ sc.conditional_status = 0 }

\* a quiet snapshot and one with an alert, which hides the bottom icons
MapSnapshots == { QuietSnapshot, [QuietSnapshot EXCEPT !.alert_size = "MID"] }

NextMap ==
  \/ \E off \in BOOLEAN : offroadTransition(off)
  \/ \E s \in MapSnapshots : updateState(s)
  \/ \E prime \in BOOLEAN : primeChanged(prime)
  \/ DeferredDelete
  \/ \E g \in PressGeometries, sc \in MapScenes : Click(<<1500, 700>>, g, sc)
  \/ \E g \in PressGeometries, sc \in MapScenes : DeliverPosted(g, sc)
  \/ clickTimerTimeout
  \/ ParamsFlush

InitMap == InitWindow(ParamsVarying({}), {"null"}, BOOLEAN, BOOLEAN, {TRUE})

SpecMap == InitMap /\ [][NextMap]_vars

\* inputs of the state-update specification: the snapshots that differ from
\* the quiet one (no navigation, no alert, no signal, no SLC limit) in at
\* most two fields
UpdateSnapshots ==
  { s \in StillSnapshots :
      /\ ~s.turn_signal_right /\ ~s.blind_spot_left /\ ~s.blind_spot_right
      /\ s.custom_signals <= 1
      /\ Cardinality({ f \in DOMAIN s : s[f] # QuietSnapshot[f] }) <= 2 }

UpdatePaintInputs ==
  { in \in PaintInputs : /\ in.available_streams = {"road"} /\ in.v_ego = 20
                         /\ ~in.experimentalMode /\ in.modelFrame = 1
                         /\ Unusual(in) = {} }

NextUpdate ==
  \/ \E s \in UpdateSnapshots : updateState(s)
  \/ \E in \in UpdatePaintInputs : paintGL(in)

\* onroad with the map panel built and hidden, the SLC offset shown
InitUpdate ==
  /\ InitWindow({ f \in ParamsVarying({"DisplaySLCOffset"}) : f["DisplaySLCOffset"] },
                {"panel"}, {TRUE}, {FALSE}, {FALSE})
  /\ ~mapVisible

SpecUpdate == InitUpdate /\ [][NextUpdate]_vars

NextPaint ==
  \/ \E in \in PaintInputs : paintGL(in)
  \/ paintEvent
  \/ vipcThreadConnect
  \/ vipcFrameReceived
  \/ vipcDisconnected

InitPaint == InitWindow(ParamsVarying({}), {"panel"}, {TRUE}, {FALSE}, {FALSE})

SpecPaint == InitPaint /\ [][NextPaint]_vars

\* inputs of the turn-signal specification: every theme, signal and
\* blind-spot state
SignalSnapshots ==
  { s \in StillSnapshots :
      \A f \in DOMAIN s \ {"custom_signals", "turn_signal_left", "turn_signal_right",
                             "blind_spot_left", "blind_spot_right"} :
         s[f] = QuietSnapshot[f] }

NextSignal ==
  \/ animationTimerTimeout
  \/ \E s \in SignalSnapshots : updateState(s)
  \/ \E in \in UpdatePaintInputs : paintGL(in)

InitSignal == InitUpdate

SpecSignal == InitSignal /\ [][NextSignal]_vars

\* inputs of the speed specification: every cruise and ego speed, alive or
\* not, metric or not, with and without an SLC limit and offset
SpeedSnapshots ==
  { [QuietSnapshot EXCEPT !.cs_alive = d.cs_alive, !.v_cruise = d.v_cruise,
                          !.v_cruise_cluster = d.v_cruise_cluster,
                          !.v_ego = d.v_ego, !.v_ego_cluster = d.v_ego_cluster,
                          !.is_metric = d.is_metric, !.speed_limit = d.speed_limit,
                          !.speed_limit_offset = d.speed_limit_offset] :
      d \in { e \in [ cs_alive : BOOLEAN, v_cruise : {0, 40, 255},
                      v_cruise_cluster : {0, 50}, v_ego : {-1, 10},
                      v_ego_cluster : {-2, 0, 12}, is_metric : BOOLEAN,
                      speed_limit : {0, 20}, speed_limit_offset : {0, 2} ] :
                 /\ e.v_cruise_cluster # 0 => e.v_cruise = 40
                 /\ e.v_ego_cluster # 0 => e.v_ego = 10
                 /\ e.speed_limit_offset # 0 => e.speed_limit # 0 } }

\* leads with their info shown
SpeedLeadInputs ==
  { in \in LeadInputs : in.d_rel = 10 /\ in.v_rel = 0 /\ in.customColors = 0 /\ in.leadInfo }

NextSpeed ==
  \/ \E s \in SpeedSnapshots : updateState(s)
  \/ \E in \in SpeedLeadInputs : drawLead(in)
  \/ \E in \in UpdatePaintInputs : paintGL(in)

InitSpeed == InitUpdate

SpecSpeed == InitSpeed /\ [][NextSpeed]_vars

\* inputs of the lead specification: the display metric or not
LeadSnapshots == { QuietSnapshot, [QuietSnapshot EXCEPT !.is_metric = TRUE] }

NextLead ==
  \/ \E s \in LeadSnapshots : updateState(s)
  \/ pre.op = "leadInput" /\ drawLead(pre.in)

\* onroad, with any input of drawLead at hand
InitLead ==
  /\ InitPanels(ParamsVarying({}), {"null"}, {FALSE}, {FALSE}, {FALSE})
  /\ InitCamera(1)
  /\ ev = [op |-> "init"]
  /\ pre \in { [op |-> "leadInput", in |-> in] : in \in LeadInputs }

SpecLead == InitLead /\ [][NextLead]_vars

NextStatusBar ==
  \E in \in StatusBarInputs, dt \in TimeSteps, garbage \in InvalidElapsed \cup {0} :
    drawStatusBar(in, dt, garbage)

InitStatusBar == InitUpdate

SpecStatusBar == InitStatusBar /\ [][NextStatusBar]_vars

\* the UI thread inside paintGL and the camera thread side by side
NextLock ==
  \/ paintGLLock
  \/ \E in \in PaintInputs : paintGLFrame(in)
  \/ \E in \in PaintInputs : paintGLOverlay(in)
  \/ vipcThreadConnect
  \/ vipcFrameReceived
  \/ vipcDisconnected

InitLock == InitPaint

SpecLock == InitLock /\ [][NextLock]_vars

NextPersonality ==
  \/ handleClick
  \/ \E between \in Profiles \cup {-1} : checkUpdate(between)
  \/ \E profile \in Profiles : wheelButton(profile)
  \/ personalityChangeNoted

\* onroad, the button constructed with any stored profile
InitPersonality ==
  /\ InitPanels(ParamsVarying({}), {"null"}, {FALSE}, {FALSE}, {FALSE})
  /\ ev = [op |-> "init"]
  /\ pre = [op |-> "none"]
  /\ \E stored \in Profiles : InitCameraWith(1, stored)

SpecPersonality == InitPersonality /\ [][NextPersonality]_vars

\* inputs of the mode specification: the wheel mode on, every status from
\* 0 to 6
ModeScenes ==
  [ experimental_mode_via_wheel : {TRUE}, conditional_experimental : BOOLEAN,
    conditional_status : 0..6, navigate_on_openpilot : {FALSE} ]

ModeGeometry == [x |-> 0, w |-> 2160]

NextMode ==
  \/ \E sc \in ModeScenes : changeMode(sc)
  \/ \E sc \in ModeScenes : Click(<<1500, 700>>, ModeGeometry, sc)
  \/ \E sc \in ModeScenes : DeliverPosted(ModeGeometry, sc)
  \/ clickTimerTimeout
  \/ ParamsFlush

\* onroad without a map panel, any car
InitMode ==
  /\ InitPanels(ParamsVarying({"ExperimentalMode"}), {"null"}, {FALSE}, {FALSE}, {FALSE})
  /\ ev = [op |-> "init"]
  /\ pre = [op |-> "none"]
  /\ InitCameraOf(0, 0, Cars)

SpecMode == InitMode /\ [][NextMode]_vars

\* inputs of the window-update specification
FpsSamples == {0, 300, 1500}
WindowSnapshots == { QuietSnapshot, [QuietSnapshot EXCEPT !.alert_size = "MID"] }

NextWindow ==
  \/ \E in \in WindowInputs(WindowSnapshots, FpsSamples) : windowUpdateState(in)
  \/ \E dt \in {30000, 60000} : clockAdvance(dt)

InitWindowUpdate == InitUpdate

SpecWindow == InitWindowUpdate /\ [][NextWindow]_vars

NextLane == drawLaneLines

\* onroad, with any input of drawLaneLines at hand
InitLane ==
  /\ InitPanels(ParamsVarying({}), {"null"}, {FALSE}, {FALSE}, {FALSE})
  /\ InitCamera(1)
  /\ ev = [op |-> "init"]
  /\ pre \in { [op |-> "laneInput", in |-> in] : in \in LaneInputs }

SpecLane == InitLane /\ [][NextLane]_vars


(***************************************************************************)
(* Click routing                                                           *)
(***************************************************************************)
\* the elements of a sequence
Range(seq) == { seq[i] : i \in 1..Len(seq) }

\* the keys written by the handler that ran last
KeysWritten(e) == { w[2] : w \in Range(e.writes) }

\* p lies in the rectangle with top-left corner (x, y), w wide and h high
InRect(p, x, y, w, h) == /\ x <= p[1] /\ p[1] < x + w
                         /\ y <= p[2] /\ p[2] < y + h

\* the setting a click at p is to flip: the first rectangle in the order
\* max speed, speed, speed limit that holds p
FirstMatch(p, g) ==
  IF InRect(p, 7, 25, 225, 225) THEN "ReverseCruiseIncrease"
  ELSE IF InRect(p, ((g.w - 1) \div 2) - 175, 50, 350, 350) THEN "HideSpeed"
  ELSE IF InRect(p, 7, 250, 225, 225) THEN "DisplaySLCOffset"
  ELSE "none"

ToggleKeys == {"ReverseCruiseIncrease", "HideSpeed", "DisplaySLCOffset"}

\* the value of key k in a triple of cached toggles
CachedOf(t, k) == IF k = "ReverseCruiseIncrease" THEN t[1]
                  ELSE IF k = "HideSpeed" THEN t[2] ELSE t[3]

\* C1: a click inside a widget rectangle writes exactly one of the three
\* toggles, the one of the first matching rectangle in the order max speed,
\* speed, speed limit, as the negation of its stored value, caches that
\* value and leaves the other two cached toggles alone; it neither starts
\* nor stops the click timer, writes none of ExperimentalMode,
\* ConditionalStatus and Sidebar, leaves the map's visibility alone and is
\* not propagated to the parent.
C1_WidgetClickFirstMatch ==
  (pre.op = "click" /\ FirstMatch(pre.pos, pre.geom) # "none") =>
    LET k == FirstMatch(pre.pos, pre.geom)
        v == ~pre.params[k]
        now == <<reverseCruiseIncrease, speedHidden, displaySLCOffset>>
    IN /\ KeysWritten(ev) \cap ToggleKeys = {k}
       /\ \A i \in 1..Len(ev.writes) :
            ev.writes[i][2] = k => (i = 1 /\ ev.writes[i] = <<"params", k, v>>)
       /\ \A j \in ToggleKeys :
            CachedOf(now, j) = IF j = k THEN v ELSE CachedOf(pre.cached, j)
       /\ clickTimerActive = pre.clickTimerActive
       /\ KeysWritten(ev) \cap {"ExperimentalMode", "ConditionalStatus", "Sidebar"} = {}
       /\ mapVisible = pre.mapVisible
       /\ ~ev.propagated

\* C1 witness: a click on a point that lies in both the max-speed and the
\* speed rectangle has flipped ReverseCruiseIncrease while the click timer
\* was running and the map was visible
C1_Witness ==
  /\ pre.op = "click"
  /\ InRect(pre.pos, 7, 25, 225, 225)
  /\ InRect(pre.pos, ((pre.geom.w - 1) \div 2) - 175, 50, 350, 350)
  /\ "ReverseCruiseIncrease" \in KeysWritten(ev)
  /\ pre.clickTimerActive /\ clickTimerActive
  /\ pre.mapVisible /\ mapVisible

\* a click with experimental_mode_via_wheel on that no rectangle holds
WheelClick(p, g, sc) ==
  /\ Click(p, g, sc)
  /\ sc.experimental_mode_via_wheel
  /\ FirstMatch(p, g) = "none"

\* the one mode change of a double click
ModeChange(sc) ==
  IF sc.conditional_experimental
  THEN << <<"memory", "ConditionalStatus", OverrideValue(sc.conditional_status)>> >>
  ELSE << <<"params", "ExperimentalMode", ~params["ExperimentalMode"]>> >>

\* C2: with experimental_mode_via_wheel on, a click outside the three
\* rectangles that arrives while the click timer runs stops the timer (so no
\* synthetic click follows) and performs exactly one mode change; neither
\* that click nor the one that started the timer writes Sidebar, changes the
\* map's visibility or is propagated to the parent.
C2_DoubleClickChangesMode ==
  [][\A p \in PressPositions, g \in PressGeometries, sc \in Scenes :
       WheelClick(p, g, sc) =>
         /\ clickTimerActive => /\ ~clickTimerActive'
                                /\ posted' = posted
                                /\ ev'.writes = ModeChange(sc)
         /\ "Sidebar" \notin KeysWritten(ev')
         /\ mapVisible' = mapVisible
         /\ ~ev'.propagated]_vars

\* C3: with experimental_mode_via_wheel on, a click outside the three
\* rectangles that finds the click timer idle is not acted on (it only
\* starts the timer); the timer's expiry stops the timer and posts exactly
\* one synthetic click; handling the synthetic click propagates it to the
\* parent and writes Sidebar once, writes neither ExperimentalMode nor
\* ConditionalStatus and does not restart the timer.
C3_SingleClickDeferred ==
  [][/\ \A p \in PressPositions, g \in PressGeometries, sc \in Scenes :
          (WheelClick(p, g, sc) /\ ~clickTimerActive) =>
            /\ clickTimerActive'
            /\ ev'.writes = << >>
            /\ mapVisible' = mapVisible
            /\ ~ev'.propagated
     /\ clickTimerTimeout => (~clickTimerActive' /\ posted' = posted + 1)
     /\ \A g \in PressGeometries, sc \in Scenes :
          DeliverPosted(g, sc) =>
            /\ ev'.propagated
            /\ ev'.writes = << <<"params", "Sidebar", ~SidebarVisible(g)>> >>
            /\ clickTimerActive' = clickTimerActive]_vars

(***************************************************************************)
(* Caches and painting                                                     *)
(***************************************************************************)
\* hideBottomIcons as snapshot s alone gives it
HideFrom(s) ==
  \/ s.alert_size # "NONE"
  \/ (s.custom_signals # 0 /\ (s.turn_signal_left \/ s.turn_signal_right))
  \/ s.show_driver_camera

\* the speed limit as snapshot s alone gives it
LimitFrom(s, slcOffsetShown) ==
  LET factor == IF s.is_metric THEN 3600 ELSE 2237
      raw == IF s.nav_alive THEN s.nav_speed_limit ELSE s.speed_limit
      offset == IF slcOffsetShown THEN s.speed_limit_offset * factor ELSE 0
  IN IF s.speed_limit # 0 THEN Round(raw * factor - offset) ELSE raw * factor

\* C4: after updateState(s) every cached value (other than vtscOffset,
\* dm_fade_state and v_ego_cluster_seen) is the one snapshot s alone gives:
\* hideBottomIcons, speedLimit, has_us_speed_limit and the visibility of the
\* personality and map-settings buttons follow the turn-signal,
\* custom-signal, SLC limit, SLC offset and personalities flags of s, not
\* those of the tick before.
C4_CachesFollowSnapshot ==
  ev.op = "updateState" =>
    LET s == ev.s IN
    /\ nvg.hideBottomIcons = HideFrom(s)
    /\ nvg.speedLimit = LimitFrom(s, displaySLCOffset)
    /\ nvg.has_us_speed_limit = ((s.nav_alive /\ s.sign = "MUTCD") \/ s.speed_limit # 0)
    /\ nvg.has_eu_speed_limit = (s.nav_alive /\ s.sign = "VIENNA")
    /\ personalityVisible = (s.personalities_via_screen /\ ~HideFrom(s)
                             /\ ~s.show_driver_camera)
    /\ btnEnabled => btnVisible = ~HideFrom(s)
    /\ nvg.is_metric = s.is_metric
    /\ nvg.slcSpeedLimit = s.speed_limit
    /\ nvg.turnSignalLeft = s.turn_signal_left
    /\ nvg.customSignals = s.custom_signals
    /\ nvg.onroadAdjustableProfiles = s.personalities_via_screen

\* C5: no paint method mutates telemetry or shared UI state: the scene and
\* the persisted settings are the same after OnroadWindow::paintEvent and
\* after AnnotatedCameraWidget::paintGL as before, and no setting is written.
C5_PaintMutatesNothing ==
  ev.op \in {"paintEvent", "paintGL"} =>
    /\ sceneWideCam = ev.before.wide_cam
    /\ sceneModelFrame = ev.before.modelFrame
    /\ ev.op = "paintGL" => ev.writes = << >>

\* C5, as the code has it: OnroadWindow::paintEvent and a skipped paintGL
\* leave the scene alone and write no setting; a paintGL that is not skipped
\* sets scene.wide_cam to whether the active stream is the wide road camera,
\* puts the wide request into WideCamera of the memory store as its only
\* write, and leaves the scene's polygons as they were or as update_model
\* computes them from the model frame received.
C5_PaintGLWritesWideCam ==
  /\ ev.op = "paintEvent" =>
       (sceneWideCam = ev.before.wide_cam /\ sceneModelFrame = ev.before.modelFrame)
  /\ (ev.op = "paintGL" /\ ev.skipped) =>
       /\ sceneWideCam = ev.before.wide_cam
       /\ sceneModelFrame = ev.before.modelFrame
       /\ ev.writes = << >>
  /\ (ev.op = "paintGL" /\ ~ev.skipped) =>
       /\ sceneWideCam = (activeStreamType = "wide")
       /\ ev.writes = << <<"memory", "WideCamera", wide_cam_requested>> >>
       /\ sceneModelFrame \in {ev.before.modelFrame, 1}

\* C5 witness: a paintGL that was not skipped has turned scene.wide_cam on
\* and put TRUE into WideCamera
C5_Witness ==
  /\ ev.op = "paintGL" /\ ~ev.skipped
  /\ ~ev.before.wide_cam /\ sceneWideCam
  /\ ev.writes = << <<"memory", "WideCamera", TRUE>> >>

\* C6: after any updateState, has_us_speed_limit and has_eu_speed_limit are
\* never both true, and drawHud draws at most one of the MUTCD and the
\* Vienna sign.
C6_SignsExclusive ==
  /\ ev.op = "updateState" => ~(nvg.has_us_speed_limit /\ nvg.has_eu_speed_limit)
  /\ ev.op = "paintGL" => ~({"us_sign", "eu_sign"} \subseteq ev.drawn)

\* C10: a paintGL call returns without drawing only when the frame buffer is
\* empty and skip_frame_count > 0; a skipped call decrements
\* skip_frame_count by exactly one, a call that finds a frame resets it to
\* 5; skip_frame_count stays in 0..5, at most 5 calls in a row are skipped
\* and the next call with an empty buffer draws.
C10_BoundedFrameSkips ==
  /\ skip_frame_count \in 0..5
  /\ skippedInRow <= 5
  /\ skippedInRow = 5 => skip_frame_count = 0
  /\ ev.op = "paintGL" =>
       /\ ev.skipped <=> (ev.empty /\ ev.count > 0)
       /\ ev.skipped => (skip_frame_count = ev.count - 1 /\ ev.drawn = {} /\ ev.sent = 0)
       /\ ~ev.empty => skip_frame_count = 5
       /\ (ev.empty /\ ev.count = 0) => skip_frame_count = 0

\* C10 witness: the fifth paintGL call in a row has been skipped, so the
\* counter is used up
C10_Witness ==
  /\ ev.op = "paintGL" /\ ev.skipped
  /\ skippedInRow = 5
  /\ ev.count = 1 /\ skip_frame_count = 0

(***************************************************************************)
(* The map panel                                                           *)
(***************************************************************************)
\* C8: primeChanged(false) with an empty MAPBOX_TOKEN while a map panel
\* exists leaves the map pointer null, the panel scheduled for deletion and
\* the map-settings button disabled and hidden; with prime true, a
\* non-empty token or no panel, primeChanged leaves the map and the button
\* as they were.
C8_TeardownWhenPrerequisitesLost ==
  ev.op = "primeChanged" =>
    IF ev.before.map = "panel" /\ ~ev.prime /\ ~mapboxToken
    THEN /\ map = "null"
         /\ doomed = ev.before.doomed + 1
         /\ Len(split) = Len(ev.before.split)
         /\ \A i \in 1..Len(split) :
              split[i] = IF ev.before.split[i] = "map" THEN "doomed"
                         ELSE ev.before.split[i]
         /\ ~btnEnabled /\ ~btnVisible
    ELSE /\ map = ev.before.map
         /\ doomed = ev.before.doomed
         /\ split = ev.before.split
         /\ btnEnabled = ev.before.btnEnabled
         /\ btnVisible = ev.before.btnVisible

\* C8 witness: primeChanged(false) has torn down a panel whose button was
\* enabled and visible
C8_Witness ==
  /\ ev.op = "primeChanged" /\ ~ev.prime
  /\ ev.before.map = "panel" /\ ev.before.btnEnabled /\ ev.before.btnVisible
  /\ map = "null" /\ doomed = 1 /\ ~btnEnabled /\ ~btnVisible

\* C9: after any offroadTransition or primeChanged that leaves the window
\* onroad with prime or a non-empty MAPBOX_TOKEN, a map panel exists, at
\* position 0 of the split layout, with the map-settings button enabled, and
\* it is hidden if that event built it.
C9_PanelWheneverPrerequisites ==
  (ev.op \in {"offroadTransition", "primeChanged"} /\ ~offroad
     /\ (hasPrime \/ mapboxToken)) =>
    /\ map = "panel"
    /\ Head(split) = "map"
    /\ btnEnabled
    /\ ev.before.map = "null" => ~mapVisible

\* C9, as the code has it: only offroadTransition(false) builds the panel.
\* After offroadTransition(false) with prime or a non-empty token a panel
\* exists with the button enabled, and if none existed before (also after an
\* earlier teardown) it is new, hidden and at position 0 of the split
\* layout; offroadTransition(true), offroadTransition(false) without prime
\* and token, and every primeChanged build nothing.
C9_PanelBuiltOnOnroadTransition ==
  /\ (ev.op = "offroadTransition" /\ ~ev.off /\ (hasPrime \/ mapboxToken)) =>
       /\ map = "panel"
       /\ btnEnabled
       /\ ev.before.map = "null" =>
            (split = <<"map">> \o ev.before.split /\ ~mapVisible)
       /\ ev.before.map = "panel" => split = ev.before.split
  /\ (ev.op = "offroadTransition" /\ (ev.off \/ ~(hasPrime \/ mapboxToken))) =>
       (map = ev.before.map /\ split = ev.before.split
        /\ btnEnabled = ev.before.btnEnabled)
  /\ ev.op = "primeChanged" => (map = "panel" => ev.before.map = "panel")

\* C9 witness: offroadTransition(false) has built a new panel on the token
\* alone while the panel torn down before still awaits its deletion
C9_Witness ==
  /\ ev.op = "offroadTransition" /\ ~ev.off
  /\ ev.before.map = "null" /\ ev.before.doomed = 1
  /\ map = "panel" /\ split = <<"map", "doomed", "nvg">>
  /\ btnEnabled /\ ~mapVisible

(***************************************************************************)
(* The path's colours                                                      *)
(***************************************************************************)
\* the modes a set of gradient stops takes its colours from
ModesOf(stops) == { st.mode : st \in stops }

\* the mode of the chain custom theme, experimental, conditional,
\* navigation, default
ChainMode(in) ==
  IF in.customColors # 0 THEN "theme"
  ELSE IF in.csExperimentalMode \/ in.accelerationPath \/ in.experimentalMode
       THEN "experimental"
  ELSE IF in.conditionalStatus = 1 THEN "conditional"
  ELSE IF in.navigate_on_openpilot THEN "navigation"
  ELSE "default"

\* C7: for every combination of the mode flags, the stops of the path
\* polygon and of the path edges come from exactly one mode, the first that
\* applies of custom theme, experimental, conditional, navigation, default.
C7_OneModeByChain ==
  ev.op = "drawLaneLines" =>
    /\ ModesOf(ev.polygon) = {ChainMode(pre.in)}
    /\ ModesOf(ev.edges) = {ChainMode(pre.in)}

\* C7, as the code has it: the path edges take the three stops of exactly
\* one mode, the first that applies of always-on-lateral, conditional
\* status 1, experimental mode, navigate-on-openpilot, custom theme,
\* default.  The path polygon takes, when controlsState's experimental mode
\* or the acceleration path is on, one acceleration-coloured stop per point
\* it draws in the frame, and the theme's stops instead for such a point of
\* low acceleration if a custom theme is set, so that it can mix both, and
\* has no stop if no point lies in the frame; otherwise the theme's stops if
\* a custom theme is set, else the default stops.
C7_EdgeChainAndPathGradient ==
  ev.op = "drawLaneLines" =>
    LET in == pre.in
        framed == { i \in 1..Len(in.points) : in.points[i].inFrame }
        low == { i \in framed : in.points[i].accel = "low" }
    IN
    /\ ev.edges = Stops3(
         IF in.alwaysOnLateral THEN "alwaysOnLateral"
         ELSE IF in.conditionalStatus = 1 THEN "conditional"
         ELSE IF in.experimentalMode THEN "experimental"
         ELSE IF in.navigate_on_openpilot THEN "navigation"
         ELSE IF in.customColors # 0 THEN "theme"
         ELSE "default")
    /\ IF in.csExperimentalMode \/ in.accelerationPath
       THEN /\ ModesOf(ev.polygon) \subseteq {"experimental", "theme"}
            /\ "theme" \in ModesOf(ev.polygon) =>
                 (in.customColors # 0 /\ low # {})
            /\ framed # {} => ev.polygon # {}
            /\ \A st \in ev.polygon :
                 st.mode = "experimental" =>
                   \E i \in framed :
                     /\ st.pos = <<"point", i>>
                     /\ in.customColors = 0 \/ in.points[i].accel = "high"
            /\ framed = {} => ev.polygon = {}
            /\ (framed # {} /\ (in.customColors = 0 \/ low = {})) =>
                 "experimental" \in ModesOf(ev.polygon)
       ELSE ev.polygon = Stops3(IF in.customColors # 0 THEN "theme" ELSE "default")

\* C7 witness: with a custom theme, always-on-lateral and the acceleration
\* path on, the edges took the always-on-lateral colours and the polygon
\* mixed the theme's stops with an acceleration-coloured one
C7_Witness ==
  /\ ev.op = "drawLaneLines"
  /\ pre.in.customColors # 0 /\ pre.in.alwaysOnLateral /\ pre.in.accelerationPath
  /\ ev.edges = Stops3("alwaysOnLateral")
  /\ ModesOf(ev.polygon) = {"experimental", "theme"}

(***************************************************************************)
(* The debug message                                                       *)
(***************************************************************************)
\* C11: a paintGL call that is not skipped publishes exactly one uiDebug
\* message, also when the driver camera is shown and nothing is drawn over
\* it, and updates the fps filter and prev_draw_t exactly once; a skipped
\* call publishes nothing and leaves the filter and prev_draw_t alone.
C11_OneDebugMessagePerFrame ==
  ev.op = "paintGL" =>
    IF ev.empty /\ ev.count > 0
    THEN ev.sent = 0 /\ ev.fps_updates = 0 /\ ev.prev_draw_t = "kept"
    ELSE ev.sent = 1 /\ ev.fps_updates = 1 /\ ev.prev_draw_t = "cur_draw_t"

\* C11 witness: a paintGL call with the driver camera shown has drawn no
\* overlay and published its message, with the frame buffer empty and the
\* skip counter used up
C11_Witness ==
  /\ ev.op = "paintGL" /\ ~ev.skipped
  /\ ev.empty /\ ev.count = 0
  /\ streamType = "driver" /\ ev.drawn = {}
  /\ ev.sent = 1

(***************************************************************************)
(* The turn-signal animation                                               *)
(***************************************************************************)
\* the frame index after k timer ticks from i
RECURSIVE Ticks(_, _)
Ticks(i, k) == IF k = 0 THEN i ELSE Ticks(AnimationStep(i), k - 1)

\* C12: animationFrameIndex is always in 0..totalFrames-1; every tick of
\* the animation timer advances it by exactly one modulo totalFrames, so
\* that it returns to its value after exactly totalFrames ticks and not
\* before; nothing else (updateState, a theme change that reloads the
\* images, a paint) changes it.
C12_FrameIndexCyclic ==
  /\ [](/\ animationFrameIndex \in 0..7
        /\ Ticks(animationFrameIndex, 8) = animationFrameIndex
        /\ \A k \in 1..7 : Ticks(animationFrameIndex, k) # animationFrameIndex)
  /\ [][animationFrameIndex' =
          IF ev'.op = "animationTimer"
          THEN (IF animationFrameIndex = 7 THEN 0 ELSE animationFrameIndex + 1)
          ELSE animationFrameIndex]_vars

\* C12 witness: the timer has wrapped the index from the last frame to 0
\* after a theme change reloaded the images
C12_Witness ==
  /\ ev.op = "animationTimer"
  /\ animationFrameIndex = 0
  /\ nvg.customSignals = 2 /\ signalImgVector[1].theme = 2

\* C13: signalImgVector holds 18 images after construction and after every
\* theme reload; for every frame index and blind-spot state the index
\* drawTurnSignals uses lies within the vector, the left signal takes a
\* regular image at an even index and the right signal the mirrored variant
\* of the same image, at that index plus one.
C13_SignalIndexInBounds ==
  /\ Len(signalImgVector) = 18
  /\ ev.op = "paintGL" =>
       \A sg \in ev.signals :
         /\ sg.index \in 0..17
         /\ IF sg.side = "left"
            THEN /\ sg.index % 2 = 0
                 /\ ~signalImgVector[sg.index + 1].flipped
            ELSE /\ sg.index % 2 = 1
                 /\ signalImgVector[sg.index + 1].flipped
                 /\ signalImgVector[sg.index + 1].image = signalImgVector[sg.index].image
                 /\ ~signalImgVector[sg.index].flipped

\* C13 witness: at the last frame index, after a theme reload, both signals
\* were drawn, the left one for a blind spot
C13_Witness ==
  /\ ev.op = "paintGL"
  /\ animationFrameIndex = 7
  /\ signalImgVector[1].theme = 1
  /\ \E l, r \in ev.signals :
       /\ l.side = "left" /\ l.blindspot /\ l.index = 8
       /\ r.side = "right" /\ ~r.blindspot /\ r.index = 7

C15_NotAliveDefaults ==
  /\ nvg.speed >= 0
  /\ (ev.op = "updateState" /\ ~ev.s.cs_alive) =>
       /\ nvg.speed = 0
       /\ nvg.setSpeed = 255 * 1000
       /\ ~nvg.is_cruise_set
       /\ SetSpeedStr(nvg) = <<"dash">>
  /\ (ev.op = "paintGL" /\ ev.hud # << >>) =>
       /\ ev.hud[1].speedStr >= 0
       /\ ~nvg.is_cruise_set => ev.hud[1].setSpeedStr = <<"dash">>
       /\ nvg.is_cruise_set => ev.hud[1].setSpeedStr[1] = "number"

\* C15 witness: the HUD drawn with the dash and speed 0 while the caches hold
\* the sentinel, the display not metric
C15_Witness ==
  /\ ev.op = "paintGL" /\ ev.hud # << >>
  /\ ev.hud[1].setSpeedStr = <<"dash">> /\ ev.hud[1].speedStr = 0
  /\ nvg.setSpeed = 255 * 1000 /\ ~nvg.is_metric /\ nvg.v_ego_cluster_seen

\* C16: v_ego_cluster_seen is false until the first updateState whose
\* vEgoCluster is not 0 and true ever after; updateState takes the speed from
\* vEgo while the latch is false and from vEgoCluster once it is true, also
\* when vEgoCluster is 0.
C16_ClusterLatch ==
  /\ ~nvg.v_ego_cluster_seen
  /\ [][ /\ nvg.v_ego_cluster_seen => nvg'.v_ego_cluster_seen
         /\ ev'.op # "updateState" => nvg'.v_ego_cluster_seen = nvg.v_ego_cluster_seen
         /\ ev'.op = "updateState" =>
              LET s == ev'.s
                  source == IF nvg'.v_ego_cluster_seen THEN s.v_ego_cluster ELSE s.v_ego
              IN /\ nvg'.v_ego_cluster_seen
                      = (nvg.v_ego_cluster_seen \/ s.v_ego_cluster # 0)
                 /\ s.cs_alive =>
                      nvg'.speed = (IF source > 0 THEN source ELSE 0)
                                     * (IF s.is_metric THEN 3600 ELSE 2237) ]_vars

\* C16 witness: with the latch set, an update whose vEgoCluster is 0 and whose
\* vEgo is 10 m/s left the speed 0
C16_Witness ==
  /\ ev.op = "updateState" /\ ev.s.cs_alive
  /\ ev.s.v_ego_cluster = 0 /\ ev.s.v_ego = 10
  /\ nvg.v_ego_cluster_seen /\ nvg.speed = 0

C17_StatusThenRoadName ==
  ev.op = "drawStatusBar" =>
    LET t == statusBar.timer
    IN
    /\ ev.statusTextOpacity \in 0..fadeDuration
    /\ ev.roadNameOpacity \in 0..fadeDuration
    /\ ev.statusTextOpacity + ev.roadNameOpacity = fadeDuration
    /\ ev.roadName = "" =>
         ev.restarted /\ t = 0 /\ ev.statusTextOpacity = fadeDuration
    /\ (statusBar.since = "status" /\ ev.roadName # "") =>
         ev.statusTextOpacity =
           IF t <= 5000 \div Tick THEN fadeDuration
           ELSE IF t <= 6500 \div Tick THEN 6500 \div Tick - t
           ELSE 0

(***************************************************************************)
(* The frame lock                                                          *)
(***************************************************************************)
\* C19: in paintGL the check of frames being empty, the updates of stream
\* type, calibration and frame id and CameraWidget::paintGL run with
\* frame_lock held; the lock is released on every exit path, the early
\* return of a skipped frame included, and it is not held while the overlay
\* is drawn or uiDebug is sent.
C19_FrameLockScope ==
  /\ frame_lock = "ui" <=> paintPc = "locked"
  /\ ev.op = "paintGL.frame" =>
       /\ ev.lock = "ui"
       /\ frame_lock = "free"
       /\ ev.skipped => paintPc = "idle" /\ ev.done = <<"frames.empty">>
       /\ ~ev.skipped =>
            /\ paintPc = "overlay"
            /\ ev.done = <<"frames.empty", "setStreamType", "updateCalibration",
                           "setFrameId", "CameraWidget::paintGL">>
  /\ ev.op = "paintGL.overlay" =>
       ev.lock = "free" /\ frame_lock = "free" /\ ev.sent = 1

\* C19 witness: a skipped frame returned early, the lock free again and the
\* UI thread out of paintGL
C19_Witness ==
  /\ ev.op = "paintGL.frame" /\ ev.skipped /\ ev.lock = "ui"
  /\ frame_lock = "free" /\ paintPc = "idle"

(***************************************************************************)
(* The personality button                                                  *)
(***************************************************************************)
\* C20: handleClick maps the profile 0 to 2, 2 to 1 and 1 to 0; with a stored
\* LongitudinalPersonality in {0,1,2}, personalityProfile stays in {0,1,2}
\* after any sequence of clicks and checkUpdate calls, three clicks in a row
\* restore the profile they started from, and after every click the stored
\* LongitudinalPersonality equals personalityProfile, PersonalityChangedViaUI
\* is set and the transition timer is restarted.
C20_PersonalityCycle ==
  /\ pbtn.personalityProfile \in {0, 1, 2}
  /\ pbtn.LongitudinalPersonality \in {0, 1, 2}
  /\ Len(pbtn.clicked) = 3 => pbtn.personalityProfile = pbtn.clicked[1]
  /\ ev.op = "handleClick" =>
       /\ ev.before = 0 => pbtn.personalityProfile = 2
       /\ ev.before = 2 => pbtn.personalityProfile = 1
       /\ ev.before = 1 => pbtn.personalityProfile = 0
       /\ pbtn.LongitudinalPersonality = pbtn.personalityProfile
       /\ pbtn.PersonalityChangedViaUI
       /\ ev.transitionTimer = "restarted"
  /\ ev.op = "checkUpdate" =>
       \/ pbtn.personalityProfile = pbtn.LongitudinalPersonality
       \/ pbtn.personalityProfile = ev.before

\* C20 witness: the third click in a row, from 0 over 2 and 1 back to 0
C20_Witness ==
  /\ ev.op = "handleClick" /\ ev.before = 1
  /\ pbtn.clicked = <<0, 2, 1>> /\ pbtn.personalityProfile = 0
  /\ pbtn.LongitudinalPersonality = 0 /\ pbtn.PersonalityChangedViaUI

\* C21: whenever checkUpdate runs while LongitudinalPersonality differs from
\* personalityProfile it adopts the persisted value and restarts the
\* transition, and when they are equal it changes nothing; a click after an
\* external write and before the next checkUpdate does not overwrite the
\* external value with one derived from the stale local profile.
C21_SyncWithExternalChanges ==
  [][ /\ ev'.op = "checkUpdate" =>
           IF pbtn.LongitudinalPersonality # pbtn.personalityProfile
           THEN /\ pbtn'.personalityProfile = pbtn'.LongitudinalPersonality
                /\ ev'.transitionTimer = "restarted"
           ELSE /\ pbtn' = pbtn
                /\ ev'.transitionTimer = "running"
      /\ (ev'.op = "handleClick"
            /\ pbtn.LongitudinalPersonality # pbtn.personalityProfile) =>
           \/ pbtn'.LongitudinalPersonality = pbtn.LongitudinalPersonality
           \/ pbtn'.LongitudinalPersonality
                = <<2, 0, 1>>[pbtn.LongitudinalPersonality + 1] ]_vars

\* C22: when a turn signal is active on a side whose blind spot is occupied,
\* drawTurnSignals draws the red blind-spot image of that side, regular for
\* the left and mirrored for the right: its index selects one of the two
\* images appended last to signalImgVector, not a regular animation frame.
C22_BlindSpotDrawsRedImage ==
  ev.op = "paintGL" =>
    \A sig \in ev.signals :
      sig.blindspot =>
        /\ sig.index \in {Len(signalImgVector) - 2, Len(signalImgVector) - 1}
        /\ signalImgVector[sig.index + 1].image = "red"
        /\ signalImgVector[sig.index + 1].flipped = (sig.side = "right")

(***************************************************************************)
(* Experimental mode                                                       *)
(***************************************************************************)
\* C23: ExperimentalMode and the ConditionalStatus override are written only
\* when the car has longitudinal control and ExperimentalModeConfirmed is
\* set, by ExperimentalButton::changeMode and equally by the double click
\* of OnroadWindow::mousePressEvent.
C23_ModeWritesNeedConfirmation ==
  ev.op \in {"changeMode", "mousePressEvent"} =>
    \A i \in DOMAIN ev.writes :
      ev.writes[i][2] \in {"ExperimentalMode", "ConditionalStatus"} =>
        car.longitudinal /\ car.confirmed

\* the override the claim tabulates
OverrideTable(cs) == IF cs \in {1, 2, 3, 4} THEN 0 ELSE IF cs >= 5 THEN 3 ELSE 4

\* C24: with conditional_experimental on, the button click and the screen
\* double click compute the same ConditionalStatus override for every
\* conditional_status: 0 for 1..4, 3 from 5 on and 4 otherwise, so status 0
\* gives 4 and status 3 or 4 gives 0; ExperimentalMode is not written in
\* this mode.
C24_SameOverride ==
  [][\A sc \in ModeScenes :
       sc.conditional_experimental =>
         LET write == << <<"memory", "ConditionalStatus",
                           OverrideTable(sc.conditional_status)>> >>
         IN /\ (changeMode(sc) /\ car.longitudinal /\ car.confirmed) =>
                 ev'.writes = write /\ pending' = pending
            /\ (Click(<<1500, 700>>, ModeGeometry, sc) /\ clickTimerActive) =>
                 ev'.writes = write /\ pending' = pending
            /\ (changeMode(sc) \/ Click(<<1500, 700>>, ModeGeometry, sc)) =>
                 \A i \in DOMAIN ev'.writes : ev'.writes[i][2] # "ExperimentalMode"]_vars

\* C24 witness: the button wrote the override 3 for a status from 5 on
C24_Witness ==
  /\ ev.op = "changeMode"
  /\ ev.writes = << <<"memory", "ConditionalStatus", 3>> >>

(***************************************************************************)
(* The persisted toggles                                                   *)
(***************************************************************************)
\* the value of key k once every queued write has reached the store
RECURSIVE LastWritten(_, _, _)
LastWritten(k, stored, queue) ==
  IF queue = << >> THEN stored
  ELSE LastWritten(k, IF Head(queue)[1] = k THEN Head(queue)[2] ELSE stored, Tail(queue))

\* C25: every click in the max-speed, speed or speed-limit rectangle writes
\* the inverse of the setting's value before the click, whether or not the
\* previous click's non-blocking write has reached the store, so that two
\* clicks in a row restore the setting; the cached flag equals the value
\* queued.
C25_ClickInvertsSetting ==
  [][(/\ ev'.op = "mousePressEvent"
      /\ ev'.writes # << >>
      /\ ev'.writes[1][2] \in ToggleKeys) =>
        LET k == ev'.writes[1][2]
            cached == IF k = "ReverseCruiseIncrease" THEN reverseCruiseIncrease'
                      ELSE IF k = "HideSpeed" THEN speedHidden' ELSE displaySLCOffset'
        IN /\ ev'.writes[1][3] = ~LastWritten(k, params[k], pending)
           /\ LastWritten(k, params'[k], pending') = ~LastWritten(k, params[k], pending)
           /\ cached = ev'.writes[1][3]]_vars

C27_NothingUnlessStarted ==
  [][ev'.op = "windowUpdateState" =>
       IF ~ev'.started
       THEN /\ UNCHANGED <<alert, bg, direction, nvg, signalImgVector, btnVisible,
                           personalityVisible, fpsStats>>
            /\ ev'.repaints = << >>
       ELSE /\ bg' = bg_colors[ev'.read[1]]
            /\ (\E i \in DOMAIN ev'.repaints : ev'.repaints[i] = "border") <=> (bg' # bg)]_vars

\* C27 witness: a run with the scene not started, after the FPS display
\* accumulated samples and the status changed the border
C27_Witness ==
  /\ ev.op = "windowUpdateState"
  /\ ~ev.started
  /\ fpsStats.displayFPS
  /\ bg = bg_colors["engaged"]
  /\ fpsStats.frameCount >= 2
  /\ direction = "RightToLeft"

(***************************************************************************)
(* The map panel and its button                                            *)
(***************************************************************************)
\* the panels of the layout that were not handed to deleteLater()
RECURSIVE LivePanels(_)
LivePanels(layout) ==
  IF layout = << >> THEN 0
  ELSE (IF Head(layout) = "map" THEN 1 ELSE 0) + LivePanels(Tail(layout))

\* C28: under any sequence of offroadTransition, primeChanged and
\* updateState, at most one map panel exists (the one map points to; a
\* panel handed to deleteLater() counts as torn down), the map-settings
\* button is enabled only if a map panel exists, and it is visible only if
\* it is enabled.
C28_OnePanelAndButton ==
  /\ LivePanels(split) <= 1
  /\ (map = "panel") = (LivePanels(split) = 1)
  /\ btnEnabled => map = "panel"
  /\ btnVisible => btnEnabled

\* C28 witness: primeChanged tore down the one panel whose button
\* updateState had shown
C28_Witness ==
  /\ ev.op = "primeChanged" /\ ~ev.prime
  /\ LivePanels(ev.before.split) = 1 /\ ev.before.btnVisible
  /\ LivePanels(split) = 0 /\ map = "null"
  /\ ~btnEnabled /\ ~btnVisible

(***************************************************************************)
(* The stream paintGL selects                                              *)
(***************************************************************************)
\* C29: after every paintGL that is not skipped, the stream is the driver
\* camera when show_driver_camera is set; otherwise it is the wide road
\* camera only if a wide stream is available, wide_camera_disabled is
\* false, experimental mode is on and calibration_wide_valid holds, and the
\* road camera else; the wide request follows the speed hysteresis
\* (requested below 10 m/s or with a single stream, released above 15 m/s,
\* kept in between); the WideCamera value written equals the request.
C29_StreamSelection ==
  [][\A in \in PaintInputs :
       (paintGL(in) /\ ~ev'.skipped) =>
         LET wideAllowed == /\ "wide" \in in.available_streams
                            /\ ~in.wide_camera_disabled
                            /\ in.experimentalMode
                            /\ in.calibration_wide_valid
             bySpeed == IF in.v_ego < 10 \/ Cardinality(in.available_streams) = 1 THEN TRUE
                        ELSE IF in.v_ego > 15 THEN FALSE
                        ELSE wide_cam_requested
         IN /\ in.show_driver_camera => streamType' = "driver"
            /\ ~in.show_driver_camera =>
                 streamType' = IF wideAllowed /\ bySpeed THEN "wide" ELSE "road"
            /\ wide_cam_requested' = (wideAllowed /\ bySpeed)
            /\ ev'.writes = << <<"memory", "WideCamera", wide_cam_requested'>> >>]_vars

(***************************************************************************)
(* The map panel under a click                                             *)
(***************************************************************************)
\* C30: when a map panel exists and a click is consumed neither by a widget
\* rectangle nor by the double-click logic, the map ends visible exactly
\* when experimental_mode_via_wheel is off, the map was hidden and the
\* sidebar matches (visible with navigate_on_openpilot, hidden without), and
\* hidden otherwise, so that with experimental_mode_via_wheel on a click
\* hides a visible map and never shows a hidden one; the click writes
\* Sidebar as the negation of the sidebar's visibility.
C30_UnconsumedClickAndMap ==
  (pre.op = "click" /\ pre.map = "panel" /\ ev.op = "mousePressEvent" /\ ev.propagated) =>
    LET sidebarVisible == pre.geom.x > 0
        matches == IF pre.scene.navigate_on_openpilot THEN sidebarVisible
                   ELSE ~sidebarVisible
    IN /\ mapVisible = IF pre.scene.experimental_mode_via_wheel THEN FALSE
                       ELSE (~pre.mapVisible /\ matches)
       /\ pre.scene.experimental_mode_via_wheel => (mapVisible => pre.mapVisible)
       /\ ev.writes = << <<"params", "Sidebar", ~sidebarVisible>> >>

\* C30 witness: with the sidebar hidden and no navigate_on_openpilot, a
\* click outside the rectangles showed the hidden map
C30_Witness ==
  /\ pre.op = "click" /\ pre.map = "panel"
  /\ ev.op = "mousePressEvent" /\ ev.propagated
  /\ ~pre.scene.experimental_mode_via_wheel
  /\ ~pre.scene.navigate_on_openpilot
  /\ pre.geom.x = 0
  /\ ~pre.mapVisible
  /\ mapVisible

====
